---- MODULE Spec2Model ----
(***************************************************************************)
(* The request pipeline of limhamn::http::server (http_server.hpp): the    *)
(* listener's accept handler with session::read_request (admission: white- *)
(* list, blacklist, rate limiter), session::on_read with handle_request    *)
(* (session resolution, callback, session merge, cookie headers, stop) and *)
(* session::on_write.  One io_context is run by one thread, so every       *)
(* completion handler runs to its end before the next one starts: each     *)
(* handler is one action.                                                  *)
(*                                                                         *)
(* Strings that the code takes apart character by character (session       *)
(* identifiers, session keys and values, session files) are sequences of   *)
(* one-character strings; names that are only compared are TLA+ strings.   *)
(***************************************************************************)
EXTENDS Integers, Sequences, FiniteSets, TLC

VARIABLES
    default_rate_limit,          \* _limhamn_http_server_impl::default_rate_limit
    rate_limited_endpoints,      \* sequence of <<endpoint, limit>>
    blacklisted_ips,
    whitelisted_ips,
    enable_session,
    associated_session_cookies,  \* sequence of cookie names
    port,                        \* settings.port, the port of the listener of server::server
    settings_session_is_secure,  \* settings.session_is_secure, as given to server::server
    trust_x_forwarded_for,       \* _limhamn_http_server_impl::trust_x_forwarded_for
    rate_limit_tracker,          \* key -> [ep, last_request_time, request_count]
    session_files,               \* sanitized identifier -> content of session_<id>.txt
    now,                         \* the latest reading of system_clock, in milliseconds
    conns,                       \* the connections accepted so far, in order of acceptance
    server,                      \* which io_context loop runs the handlers
    last,                        \* what the latest handle_request saw and produced
    call,                        \* the call of a parsing function that is under way
    result,                      \* what that call came to
    disk                         \* the files that the call finds and leaves: path -> content

vars == <<default_rate_limit, rate_limited_endpoints, blacklisted_ips, whitelisted_ips,
          enable_session, associated_session_cookies, port, settings_session_is_secure,
          trust_x_forwarded_for, rate_limit_tracker, session_files, now, conns, server, last, call, result, disk>>

\* The variables of the parsing functions, which the server's handlers leave alone.
util == <<call, result, disk>>

config == <<default_rate_limit, rate_limited_endpoints, blacklisted_ips, whitelisted_ips,
            enable_session, associated_session_cookies, port, settings_session_is_secure,
            trust_x_forwarded_for>>

(***************************************************************************)
(* Bounds of the model.                                                    *)
(***************************************************************************)
MaxLimiterConns == 5
MaxConns == 3
MaxSessionConns == 2
MaxPipelineConns == 2
MaxStoreConns == 2

(***************************************************************************)
(* Program constants.                                                      *)
(***************************************************************************)
Window == 60000
StaticListenerPort == 8080
NoContent == 204

Range(s) == {s[i] : i \in DOMAIN s}

\* The target of the default-constructed net_request that read_request looks at:
\* read_request runs before async_read, and on_read assigns net_request only later.
EmptyTarget == ""

\* The key ip + ":" + endpoint; an IPv4 address holds no ':', so the pair is the key.
TrackerKey(ip, endpoint) == <<ip, endpoint>>

\* The loop over rate_limited_endpoints: the first pair for the endpoint wins.
RECURSIVE RateLimitFor(_, _, _)
RateLimitFor(eps, endpoint, dflt) ==
    IF eps = <<>> THEN dflt
    ELSE IF Head(eps)[1] = endpoint THEN Head(eps)[2]
    ELSE RateLimitFor(Tail(eps), endpoint, dflt)

WithinWindow_never(t, last_request_time) == FALSE

WithinWindow_late(t, last_request_time) == t - last_request_time <= Window
\* now - last_request_time < 60000
WithinWindow(t, last_request_time) == t - last_request_time < Window

LimitReached_off(request_count, rate_limit) == request_count > rate_limit
\* request_count >= rate_limit
LimitReached(request_count, rate_limit) == request_count >= rate_limit


(***************************************************************************)
(* Connections.  phases is the list of pipeline states the connection has  *)
(* been in; io is the asynchronous operation it waits for.                 *)
(***************************************************************************)
NoMap == [k \in {} |-> <<>>]

NewConn(ip, lst, t) ==
    [ip |-> ip, lst |-> lst, t |-> t, phases |-> <<"ACCEPTED">>, io |-> "none",
     adm |-> "none", ep |-> "", ws |-> -1, method |-> "", target |-> "", cb |-> 0,
     store |-> {},
     sid |-> <<>>, valid |-> FALSE, upd |-> NoMap, threw |-> "none"]

\* session::read_request, the part that decides: the branch taken for a connection
\* from ip at time t.  The whitelist loop comes first and returns after async_read;
\* the blacklist loop follows it.
Admission(ip, t, tracker) ==
    LET endpoint == EmptyTarget
        key == TrackerKey(ip, endpoint)
        rate_limit == RateLimitFor(rate_limited_endpoints, endpoint, default_rate_limit)
    IN  IF ip \in whitelisted_ips THEN "whitelist"
        ELSE IF ip \in blacklisted_ips THEN "blacklist"
        ELSE IF key \notin DOMAIN tracker THEN "created"
        ELSE IF WithinWindow(t, tracker[key].last_request_time)
             THEN IF LimitReached(tracker[key].request_count, rate_limit)
                  THEN "limited" ELSE "counted"
             ELSE "reset"

Admitted_fallthrough(branch) == branch # "blacklist"
\* The branches that reach async_read; the other two return before it.
Admitted(branch) == branch \in {"whitelist", "created", "counted", "reset"}

TrackerAfter_counts(ip, t, tracker, branch) ==
    LET key == TrackerKey(ip, EmptyTarget)
    IN  IF branch \in {"created", "reset"}
        THEN [k \in DOMAIN tracker \cup {key} |->
                 IF k = key
                 THEN [ep |-> EmptyTarget, last_request_time |-> t, request_count |-> 1]
                 ELSE tracker[k]]
        ELSE IF branch \in {"counted", "limited"}
        THEN [tracker EXCEPT ![key].request_count = @ + 1]
        ELSE tracker

TrackerAfter_whitelisted(ip, t, tracker, branch) ==
    LET key == TrackerKey(ip, EmptyTarget)
    IN  IF branch \in {"created", "reset"} \/ (branch = "whitelist" /\ key \notin DOMAIN tracker)
        THEN [k \in DOMAIN tracker \cup {key} |->
                 IF k = key
                 THEN [ep |-> EmptyTarget, last_request_time |-> t, request_count |-> 1]
                 ELSE tracker[k]]
        ELSE IF branch \in {"counted", "whitelist"}
        THEN [tracker EXCEPT ![key].request_count = @ + 1]
        ELSE tracker
\* session::read_request, the update of rate_limit_tracker for the branch taken.
TrackerAfter(ip, t, tracker, branch) ==
    LET endpoint == EmptyTarget
        key == TrackerKey(ip, endpoint)
    IN  IF branch \in {"created", "reset"}
        THEN [k \in DOMAIN tracker \cup {key} |->
                 IF k = key
                 THEN [ep |-> endpoint, last_request_time |-> t, request_count |-> 1]
                 ELSE tracker[k]]
        ELSE IF branch = "counted"
        THEN [tracker EXCEPT ![key].request_count = @ + 1]
        ELSE tracker

\* The time that passes between two readings of the clock by read_request.
Delays == {1, Window - 1}

\* The listener's accept handler (no error): make_shared<session>(socket)->start(),
\* which is read_request, d milliseconds after the previous one.  A rejected session is
\* dropped at once (no handler holds it).
Accept(ip, d, max) ==
    /\ server \in {"main", "instance"}
    /\ Len(conns) < max
    /\ now' = now + d
    /\ LET branch == Admission(ip, now', rate_limit_tracker)
           tracker == TrackerAfter(ip, now', rate_limit_tracker, branch)
           key == TrackerKey(ip, EmptyTarget)
           c == [NewConn(ip, server, now') EXCEPT
                   !.adm = branch,
                   !.ep = EmptyTarget,
                   !.ws = IF key \in DOMAIN tracker /\ branch \notin {"whitelist", "blacklist"}
                          THEN tracker[key].last_request_time ELSE -1,
                   !.phases = IF Admitted(branch) THEN <<"ACCEPTED", "ADMITTED">>
                              ELSE <<"ACCEPTED", "REJECTED">>,
                   !.io = IF Admitted(branch) THEN "read" ELSE "none"]
       IN  /\ rate_limit_tracker' = tracker
           /\ conns' = Append(conns, c)
    /\ UNCHANGED <<config, session_files, server, last, util>>

(***************************************************************************)
(* The session store: one text file per identifier, a line key=value per   *)
(* entry, no escaping.                                                     *)
(***************************************************************************)
session_cookie_name == "session_id"
session_is_secure == FALSE

\* The first position of ch in s, 0 when there is none (std::string::find).
IndexOf(s, ch) ==
    IF \E i \in DOMAIN s : s[i] = ch
    THEN CHOOSE i \in DOMAIN s : s[i] = ch /\ \A j \in 1..(i - 1) : s[j] # ch
    ELSE 0

Put(m, k, v) == [x \in DOMAIN m \cup {k} |-> IF x = k THEN v ELSE m[x]]

\* The lines std::getline returns: split at '\n', no line after a final '\n'.
RECURSIVE GetLines(_)
GetLines(s) ==
    IF s = <<>> THEN <<>>
    ELSE LET i == IndexOf(s, "\n")
         IN  IF i = 0 THEN <<s>>
             ELSE <<SubSeq(s, 1, i - 1)>> \o GetLines(SubSeq(s, i + 1, Len(s)))

RECURSIVE ReadLines(_, _)
ReadLines(lines, session) ==
    IF lines = <<>> THEN session
    ELSE LET line == Head(lines)
             e == IndexOf(line, "=")
         IN  ReadLines(Tail(lines),
                       IF e = 0 THEN session
                       ELSE Put(session, SubSeq(line, 1, e - 1), SubSeq(line, e + 1, Len(line))))

\* read_from_session_file on a file with this content.
ParseSessionFile(content) == ReadLines(GetLines(content), NoMap)

\* read_from_session_file(session_dir + "/session_" + id + ".txt"): a file that cannot
\* be opened gives the empty map.
read_from_session_file(files, id) ==
    IF id \in DOMAIN files THEN ParseSessionFile(files[id]) ELSE NoMap

\* The orders in which the loop of write_to_session_file may visit an unordered_map.
Orders(S) ==
    {o \in [1..Cardinality(S) -> S] : \A i, j \in 1..Cardinality(S) : i # j => o[i] # o[j]}

RECURSIVE FileText(_, _)
FileText(order, session) ==
    IF order = <<>> THEN <<>>
    ELSE Head(order) \o <<"=">> \o session[Head(order)] \o <<"\n">>
         \o FileText(Tail(order), session)

\* write_to_session_file: the file is truncated and holds the entries in the order visited.
write_to_session_file(files, id, order, session) == Put(files, id, FileText(order, session))

\* What a call of write_to_session_file may come to.  The file cannot be opened: the
\* function throws and the file is as before.  The file is opened, which truncates it,
\* and the entries reach it.  The file is opened and the entries, which the stream
\* holds in its buffer until close(), do not reach it (the device is full, say): the
\* state of the stream is not looked at after the loop, the function returns normally
\* and the file is empty.
Writes == {"written", "not_opened"}

StorageResults == Writes \cup {"not_flushed"}

unflushed_session_file(files, id) == Put(files, id, <<>>)

Merge_replace(stored, update) == update
\* for (it : response.session) stored[it.first] = it.second;
Merge(stored, update) ==
    [k \in DOMAIN stored \cup DOMAIN update |->
        IF k \in DOMAIN update THEN update[k] ELSE stored[k]]

Sanitize_keep(id) == id

\* session_id.erase(std::remove(..., '/'), ...)
Sanitize(id) == SelectSeq(id, LAMBDA ch : ch # "/")

SessionCookieAt_any(cookies) ==
    IF \E i \in DOMAIN cookies :
           cookies[i].name = session_cookie_name /\ cookies[i].value # <<>>
    THEN CHOOSE i \in DOMAIN cookies :
           /\ cookies[i].name = session_cookie_name /\ cookies[i].value # <<>>
           /\ \A j \in 1..(i - 1) :
                ~(cookies[j].name = session_cookie_name /\ cookies[j].value # <<>>)
    ELSE 0

\* The loop over request.cookies: the position of the first cookie that has the
\* session cookie's name and a value, 0 when there is none or sessions are disabled.
SessionCookieAt(cookies) ==
    IF enable_session /\ \E i \in DOMAIN cookies :
           cookies[i].name = session_cookie_name /\ cookies[i].value # <<>>
    THEN CHOOSE i \in DOMAIN cookies :
           /\ cookies[i].name = session_cookie_name /\ cookies[i].value # <<>>
           /\ \A j \in 1..(i - 1) :
                ~(cookies[j].name = session_cookie_name /\ cookies[j].value # <<>>)
    ELSE 0

\* The erase/remove_if calls: the associated cookies and the session cookie leave the list.
StripSessionCookies(cookies) ==
    SelectSeq(cookies, LAMBDA ck : ck.name \notin Range(associated_session_cookies)
                                   /\ ck.name # session_cookie_name)

\* The cookie pushed for a minted identifier.
MintedCookie(id) ==
    [name |-> session_cookie_name, value |-> id, expires |-> 0, path |-> "/",
     domain |-> "", same_site |-> "Strict", attributes |-> <<>>, http_only |-> TRUE,
     secure |-> session_is_secure, extra_attributes |-> NoMap]

\* The Set-Cookie header written for a cookie of the response: the name and the
\* value that cookie_str begins with, and the attributes that follow in cookie_str, in
\* order.  order is the order in which the loop visits extra_attributes, an
\* unordered_map.
RECURSIVE ExtraAttributes(_, _)
ExtraAttributes(order, extra_attributes) ==
    IF order = <<>> THEN <<>>
    ELSE <<Head(order) \o "=" \o extra_attributes[Head(order)]>>
         \o ExtraAttributes(Tail(order), extra_attributes)

SetCookieHeader(ck, order) ==
    [name |-> ck.name,
     value |-> ck.value,
     attributes |->
        (IF ck.expires # 0 THEN <<"Expires=date">> ELSE <<"Expires=session">>)
        \o (IF ck.http_only THEN <<"HttpOnly">> ELSE <<>>)
        \o (IF ck.secure THEN <<"Secure">> ELSE <<>>)
        \o (IF ck.path # "" THEN <<"Path=" \o ck.path>> ELSE <<>>)
        \o (IF ck.domain # "" THEN <<"Domain=" \o ck.domain>> ELSE <<>>)
        \o (IF ck.same_site \in {"Strict", "Lax", "None"}
            THEN <<"SameSite=" \o ck.same_site>> ELSE <<>>)
        \o ck.attributes
        \o ExtraAttributes(order, ck.extra_attributes)]

\* The deletions the pipeline adds when erase_associated is set.
ErasedCookies == associated_session_cookies


(***************************************************************************)
(* The inputs of the model: client addresses, requests as the transport    *)
(* delivers them, and what the application callback returns.               *)
(***************************************************************************)
IPs == {"127.0.0.1", "10.0.0.2"}

\* The addresses that the lists of the admission specification may name.
ListedIPs == {"127.0.0.1"}

\* The clients of the session specification.
SessionIPs == {"10.0.0.2"}

\* generate_random_string(): the identifiers it may return.
MintPool == {<<"m">>}

Cookie(name, value) == [name |-> name, value |-> value]

\* The value of net_request.find("X-Forwarded-For") when the request has no such header.
NoHeader == <<"end">>

\* An X-Forwarded-For header is the sequence of its addresses and of the commas between
\* them; a request is built without one.
Request(method, user_agent, cookies) ==
    [method |-> method, target |-> "/a", user_agent |-> user_agent, cookies |-> cookies,
     x_forwarded_for |-> NoHeader]

Forwarded(req, value) == [req EXCEPT !.x_forwarded_for = value]

\* x_forwarded_for.substr(0, pos), as one string.
RECURSIVE Joined(_)
Joined(tokens) == IF tokens = <<>> THEN "" ELSE Head(tokens) \o Joined(Tail(tokens))

\* session::get_ip(): the text of the X-Forwarded-For header before its first comma
\* when the header is trusted and the request has it, the socket's address otherwise.
get_ip(req, remote) ==
    IF trust_x_forwarded_for /\ req.x_forwarded_for # NoHeader
    THEN LET value == req.x_forwarded_for
             commas == {i \in DOMAIN value : value[i] = ","}
         IN  IF commas # {}
             THEN Joined(SubSeq(value, 1, (CHOOSE i \in commas : \A j \in commas : i <= j) - 1))
             ELSE Joined(value)
    ELSE remote

Response(session, cookies, stop) ==
    [throws |-> FALSE, session |-> session, cookies |-> cookies, delete_cookies |-> <<>>,
     stop |-> stop, http_status |-> 200]

Throws == [Response(NoMap, <<>>, FALSE) EXCEPT !.throws = TRUE]

Map1(k, v) == [x \in {k} |-> v]

\* A session cookie that the callback sets by itself.
OwnSessionCookie ==
    [name |-> session_cookie_name, value |-> <<"c">>, expires |-> 0, path |-> "/",
     domain |-> "", same_site |-> "Lax", attributes |-> <<>>, http_only |-> FALSE,
     secure |-> FALSE, extra_attributes |-> NoMap]

\* The inputs of the session specification: requests without a session cookie, with
\* one, and with one after an associated cookie and with a '/' in its value; callbacks
\* that write nothing, a new key, a stored key, a key that holds '=', one that sets a
\* session cookie of its own.
CookieLists ==
    { <<>>,
      <<Cookie(session_cookie_name, <<"x">>)>>,
      <<Cookie("user", <<"u">>), Cookie(session_cookie_name, <<"/", "x">>)>> }

Updates ==
    { NoMap, Map1(<<"a">>, <<"2">>), Map1(<<"b">>, <<"2">>), Map1(<<"a", "=", "b">>, <<"3">>) }

Requests == {Request("GET", TRUE, cl) : cl \in CookieLists}

Outcomes ==
    {Response(NoMap, <<OwnSessionCookie>>, FALSE)} \cup {Response(u, <<>>, FALSE) : u \in Updates}

\* The inputs of the admission specification: one request, one answer.
AdmissionRequests == {Request("GET", TRUE, <<Cookie(session_cookie_name, <<"x">>)>>)}

AdmissionOutcomes == {Response(Map1(<<"a">>, <<"1">>), <<>>, FALSE)}

\* The inputs of the pipeline specification: every kind of request, and callbacks that
\* answer, ask the server to stop, or throw.
PipelineRequests ==
    {Request("OPTIONS", TRUE, <<>>), Request("GET", FALSE, <<>>), Request("GET", TRUE, <<>>),
     Request("POST", TRUE, <<Cookie(session_cookie_name, <<"x">>)>>)}

PipelineOutcomes ==
    {Throws, Response(NoMap, <<>>, TRUE), Response(Map1(<<"b">>, <<"2">>), <<>>, FALSE)}

\* The session directory at start: empty, or with a record left by an earlier run.
InitialFiles == {NoMap, Map1(<<"x">>, <<"a", "=", "1", "\n">>)}

(***************************************************************************)
(* session::on_read and session::handle_request.                           *)
(***************************************************************************)
NoLast ==
    [c |-> 0, method |-> "", client_id |-> <<>>, found |-> FALSE, exists |-> FALSE,
     erase |-> FALSE, req_cookies |-> <<>>, req_session |-> NoMap, req_session_id |-> <<>>,
     called |-> FALSE, returned |-> FALSE, minted |-> <<>>, cb_cookies |-> <<>>,
     set_cookies |-> <<>>, deletes |-> <<>>, merges |-> FALSE, stored |-> NoMap,
     update |-> NoMap, written |-> FALSE, write_error |-> "none", persisted |-> NoMap,
     sent |-> FALSE, status |-> 0, ip_address |-> ""]

\* listener::get_instance() as called by stop(): the first call constructs the static
\* listener on port 8080 and runs its loop inside the constructor; the acceptor's bind
\* fails (and throws) when the server's own listener holds port 8080, and succeeds or
\* fails otherwise as the port is free or taken.  A call made while that constructor
\* is still running re-enters the initialization of the static object, which is
\* undefined: the build throws recursive_init_error or blocks.
AfterStop(srv) ==
    IF srv = "main"
    THEN IF port = StaticListenerPort THEN {"terminated"} ELSE {"instance", "terminated"}
    ELSE {"terminated", "hung"}

\* What handle_request computes before it calls the callback (lines 451 to 495).
Resolve(req, files) ==
    LET at == SessionCookieAt(req.cookies)
        found == at # 0
        raw == IF found THEN req.cookies[at].value ELSE <<>>
        sid == Sanitize(raw)
        exists == found /\ sid \in DOMAIN files
    IN  [found |-> found, raw |-> raw, sid |-> sid, exists |-> exists,
         erase |-> found /\ ~exists,
         req_cookies |-> IF found /\ ~exists THEN StripSessionCookies(req.cookies)
                         ELSE req.cookies,
         req_session |-> IF exists THEN read_from_session_file(files, sid) ELSE NoMap,
         req_session_id |-> IF exists THEN sid ELSE <<>>]

CookiesAfterMint_always(r, out, mint) == Append(out.cookies, MintedCookie(mint))

\* The cookies of the response after lines 499 to 511.
CookiesAfterMint(r, out, mint) ==
    IF ~r.found /\ enable_session
          /\ ~\E i \in DOMAIN out.cookies : out.cookies[i].name = session_cookie_name
    THEN Append(out.cookies, MintedCookie(mint))
    ELSE out.cookies

\* The names deleted in the response: response.delete_cookies, then lines 555 to 559.
DeletesOf(r, out) ==
    out.delete_cookies \o (IF r.erase THEN ErasedCookies ELSE <<>>)

InvokesCallback_always(method) == TRUE

InvokesCallback_options(method) == method = "OPTIONS"
\* if (net_request.method() == verb::options) ... else { ... the callback ... }
InvokesCallback(method) == method # "OPTIONS"

Merges_always(found) == enable_session
\* if (!session_id_found && enable_session) { ... } else if (enable_session) { the merge }
Merges(found) == found /\ enable_session

HandleRequest(c, req, out, mint, write) ==
    LET conn == [conns[c] EXCEPT !.method = req.method, !.target = req.target]
        r == Resolve(req, session_files)
        merges == Merges(r.found)
        stored == read_from_session_file(session_files, r.sid)
        merged == Merge(stored, out.session)
        base == [NoLast EXCEPT !.c = c, !.method = req.method]
        seen == [base EXCEPT !.client_id = r.raw, !.found = r.found, !.exists = r.exists,
                             !.erase = r.erase, !.req_cookies = r.req_cookies,
                             !.req_session = r.req_session,
                             !.req_session_id = r.req_session_id, !.called = TRUE,
                             !.ip_address = get_ip(req, conns[c].ip)]
        done == [seen EXCEPT !.returned = TRUE,
                             !.minted = IF ~r.found /\ enable_session THEN mint ELSE <<>>,
                             !.cb_cookies = out.cookies,
                             !.set_cookies = CookiesAfterMint(r, out, mint),
                             !.deletes = DeletesOf(r, out),
                             !.merges = merges, !.stored = stored,
                             !.update = out.session, !.written = merges,
                             !.write_error = IF merges /\ write # "written"
                                             THEN write ELSE "none"]
        resolved == [conn EXCEPT !.sid = r.sid, !.valid = r.exists,
                                 !.store = IF r.found
                                           THEN IF r.exists THEN {"exists", "read"}
                                                ELSE {"exists"}
                                           ELSE {}]
        called == [resolved EXCEPT !.cb = @ + 1]
    IN
    IF ~InvokesCallback(req.method)
    THEN \* lines 425 to 429, then async_write
         /\ conns' = [conns EXCEPT ![c] = [conn EXCEPT
                        !.phases = @ \o <<"PARSED", "RESPONSE_BUILT">>, !.io = "write"]]
         /\ last' = [base EXCEPT !.sent = TRUE, !.status = NoContent]
         /\ UNCHANGED <<session_files, server>>
    ELSE IF ~req.user_agent
    THEN \* net_request.at(field::user_agent) throws std::out_of_range
         /\ conns' = [conns EXCEPT ![c] = [conn EXCEPT
                        !.phases = @ \o <<"PARSED">>, !.io = "none", !.threw = "user_agent"]]
         /\ last' = base
         /\ server' = "terminated"
         /\ UNCHANGED session_files
    ELSE IF out.throws
    THEN \* the callback throws: nothing between it and ioc.run() catches
         /\ conns' = [conns EXCEPT ![c] = [called EXCEPT
                        !.phases = @ \o <<"PARSED", "SESSION_RESOLVED", "DISPATCHED">>,
                        !.io = "none", !.threw = "callback"]]
         /\ last' = seen
         /\ server' = "terminated"
         /\ UNCHANGED session_files
    ELSE IF merges /\ write = "not_opened"
    THEN \* write_to_session_file throws std::runtime_error
         /\ conns' = [conns EXCEPT ![c] = [called EXCEPT
                        !.phases = @ \o <<"PARSED", "SESSION_RESOLVED", "DISPATCHED">>,
                        !.io = "none", !.threw = "session_write", !.upd = out.session,
                        !.store = @ \cup {"read"}]]
         /\ last' = [done EXCEPT !.written = FALSE]
         /\ server' = "terminated"
         /\ UNCHANGED session_files
    ELSE /\ \E order \in (IF merges THEN Orders(DOMAIN merged) ELSE {<<>>}) :
              session_files' = IF ~merges THEN session_files
                               ELSE IF write = "not_flushed"
                               THEN unflushed_session_file(session_files, r.sid)
                               ELSE write_to_session_file(session_files, r.sid, order, merged)
         /\ LET ok == [done EXCEPT !.persisted =
                          IF merges THEN read_from_session_file(session_files', r.sid)
                          ELSE NoMap]
            IN
            IF out.stop
            THEN \* session::stop() closes the socket, stop() never returns to async_write
                 /\ conns' = [conns EXCEPT ![c] = [called EXCEPT
                        !.phases = @ \o <<"PARSED", "SESSION_RESOLVED", "DISPATCHED", "CLOSED">>,
                        !.io = "none", !.upd = out.session,
                        !.store = IF merges THEN @ \cup {"read", "write"} ELSE @]]
                 /\ last' = ok
                 /\ server' \in AfterStop(server)
            ELSE /\ conns' = [conns EXCEPT ![c] = [called EXCEPT
                        !.phases = @ \o <<"PARSED", "SESSION_RESOLVED", "DISPATCHED",
                                          "RESPONSE_BUILT">>,
                        !.io = "write", !.upd = out.session,
                        !.store = IF merges THEN @ \cup {"read", "write"} ELSE @]]
                 /\ last' = [ok EXCEPT !.sent = TRUE, !.status = out.http_status]
                 /\ UNCHANGED server

\* session::on_read: with an error the session is dropped; otherwise handle_request.
OnRead(c, Reqs, Outs, Results) ==
    /\ server \in {"main", "instance"}
    /\ conns[c].lst = server
    /\ conns[c].io = "read"
    /\ \/ /\ conns' = [conns EXCEPT ![c].io = "none", ![c].phases = @ \o <<"CLOSED">>]
          /\ UNCHANGED <<session_files, server, last>>
       \/ \E req \in Reqs, out \in Outs, mint \in MintPool, write \in Results :
             HandleRequest(c, req, out, mint, write)
    /\ UNCHANGED <<config, rate_limit_tracker, now, util>>

\* session::on_write: without an error the send side is shut down; the session is
\* dropped when the handler returns.
OnWrite(c) ==
    /\ server \in {"main", "instance"}
    /\ conns[c].lst = server
    /\ conns[c].io = "write"
    /\ \E ec \in BOOLEAN :
          conns' = [conns EXCEPT ![c].io = "none",
                                 ![c].phases = IF ec THEN @ \o <<"CLOSED">>
                                               ELSE @ \o <<"WRITTEN", "CLOSED">>]
    /\ UNCHANGED <<config, rate_limit_tracker, session_files, now, server, last, util>>


(***************************************************************************)
(* The specifications.                                                     *)
(***************************************************************************)
DefaultLimits == {0, 2}

EndpointLimits == { <<>>, << <<"/a", 0>>, <<"", 1>>, <<"", 3>> >> }

\* No parsing function has been called.
NoCall == [fn |-> "none"]

NoResult == [done |-> FALSE, hangs |-> FALSE]

Start ==
    /\ rate_limit_tracker = NoMap
    /\ now = 0
    /\ conns = <<>>
    /\ server = "main"
    /\ last = NoLast
    /\ call = NoCall
    /\ result = NoResult
    /\ disk = NoMap

\* The settings that do not matter to admission, as the admission and the limiter
\* specifications fix them.
PlainSettings ==
    /\ enable_session = TRUE
    /\ associated_session_cookies = <<>>
    /\ port = StaticListenerPort
    /\ settings_session_is_secure = FALSE
    /\ trust_x_forwarded_for = FALSE
    /\ session_files = NoMap

\* The limits and lists that server_settings has by default.
DefaultAdmissionSettings ==
    /\ default_rate_limit = 100
    /\ rate_limited_endpoints = <<>>
    /\ blacklisted_ips = {}
    /\ whitelisted_ips = {"127.0.0.1"}

\* The admission specification: admission under every blacklist and whitelist and a
\* limit of 1, in front of the pipeline with one plain request.
Init ==
    /\ default_rate_limit = 1
    /\ rate_limited_endpoints = <<>>
    /\ blacklisted_ips \in SUBSET ListedIPs
    /\ whitelisted_ips \in SUBSET ListedIPs
    /\ PlainSettings
    /\ Start

Next ==
    \/ \E ip \in IPs : Accept(ip, Window - 1, MaxConns)
    \/ \E c \in DOMAIN conns : OnRead(c, AdmissionRequests, AdmissionOutcomes, Writes)
    \/ \E c \in DOMAIN conns : OnWrite(c)

Spec == Init /\ [][Next]_vars

\* The limiter specification: the rate-limit table and the clock are read and written
\* by read_request alone (on_read and on_write leave both unchanged), so the table's
\* states are those that sequences of accepted connections produce.
InitLimiter ==
    /\ default_rate_limit \in DefaultLimits
    /\ rate_limited_endpoints \in EndpointLimits
    /\ blacklisted_ips \in SUBSET ListedIPs
    /\ whitelisted_ips \in SUBSET ListedIPs
    /\ PlainSettings
    /\ Start

NextLimiter == \E ip \in IPs, d \in Delays : Accept(ip, d, MaxLimiterConns)

SpecLimiter == InitLimiter /\ [][NextLimiter]_vars

\* The session specification: session support enabled, every session request and
\* every session update of the callback, over a store whose writes complete or whose
\* file cannot be opened.
InitSession ==
    /\ DefaultAdmissionSettings
    /\ enable_session = TRUE
    /\ associated_session_cookies \in {<<>>, <<"user">>}
    /\ port = StaticListenerPort
    /\ settings_session_is_secure = FALSE
    /\ trust_x_forwarded_for = FALSE
    /\ session_files \in InitialFiles
    /\ Start

NextSession ==
    \/ \E ip \in SessionIPs : Accept(ip, 1, MaxSessionConns)
    \/ \E c \in DOMAIN conns : OnRead(c, Requests, Outcomes, Writes)
    \/ \E c \in DOMAIN conns : OnWrite(c)

SpecSession == InitSession /\ [][NextSession]_vars

\* The store specification: the requests of one client that keeps its session cookie,
\* with every session update of the callback, over a session directory that has the
\* client's record or does not have it.
StoreRequests == {Request("GET", TRUE, <<Cookie(session_cookie_name, <<"x">>)>>)}

StoreOutcomes == {Response(u, <<>>, FALSE) : u \in Updates}

InitStore ==
    /\ DefaultAdmissionSettings
    /\ enable_session = TRUE
    /\ associated_session_cookies = <<>>
    /\ port = StaticListenerPort
    /\ settings_session_is_secure = FALSE
    /\ trust_x_forwarded_for = FALSE
    /\ session_files \in InitialFiles
    /\ Start

NextStore ==
    \/ \E ip \in SessionIPs : Accept(ip, 1, MaxStoreConns)
    \/ \E c \in DOMAIN conns : OnRead(c, StoreRequests, StoreOutcomes, Writes)
    \/ \E c \in DOMAIN conns : OnWrite(c)

SpecStore == InitStore /\ [][NextStore]_vars

\* The minting specification: clients without session cookie and with one (x, or x
\* after a '/'), and
\* callbacks that set a session cookie of their own or no cookie.
MaxMintConns == 2

MintRequests ==
    {Request("GET", TRUE, <<>>), Request("GET", TRUE, <<Cookie("user", <<"u">>)>>),
     Request("GET", TRUE, <<Cookie(session_cookie_name, <<"x">>)>>),
     Request("GET", TRUE, <<Cookie(session_cookie_name, <<"/", "x">>)>>)}

MintOutcomes ==
    {Response(NoMap, <<OwnSessionCookie>>, FALSE), Response(NoMap, <<>>, FALSE)}

InitMint ==
    /\ DefaultAdmissionSettings
    /\ enable_session \in BOOLEAN
    /\ associated_session_cookies = <<>>
    /\ port = StaticListenerPort
    /\ settings_session_is_secure = FALSE
    /\ trust_x_forwarded_for = FALSE
    /\ session_files \in InitialFiles
    /\ Start

NextMint ==
    \/ \E ip \in SessionIPs : Accept(ip, 1, MaxMintConns)
    \/ \E c \in DOMAIN conns : OnRead(c, MintRequests, MintOutcomes, Writes)
    \/ \E c \in DOMAIN conns : OnWrite(c)

SpecMint == InitMint /\ [][NextMint]_vars

\* The pipeline specification: every method, a request without User-Agent, callbacks
\* that answer, stop the server or throw, and a store that fails in every way it can.
InitPipeline ==
    /\ DefaultAdmissionSettings
    /\ enable_session \in BOOLEAN
    /\ associated_session_cookies = <<>>
    /\ port \in {StaticListenerPort, 9090}
    /\ settings_session_is_secure \in BOOLEAN
    /\ trust_x_forwarded_for = FALSE
    /\ session_files \in InitialFiles
    /\ Start

NextPipeline ==
    \/ \E ip \in SessionIPs : Accept(ip, 1, MaxPipelineConns)
    \/ \E c \in DOMAIN conns : OnRead(c, PipelineRequests, PipelineOutcomes, StorageResults)
    \/ \E c \in DOMAIN conns : OnWrite(c)

SpecPipeline == InitPipeline /\ [][NextPipeline]_vars

\* The address specification: clients at two addresses, one of them blacklisted or
\* not, requests with and without an X-Forwarded-For header, the header trusted or not.
MaxAddressConns == 2

AddressRequests ==
    {Request("GET", TRUE, <<>>),
     Forwarded(Request("GET", TRUE, <<>>), <<"10.0.0.2">>),
     Forwarded(Request("GET", TRUE, <<>>), <<"10.9.9.9">>),
     Forwarded(Request("GET", TRUE, <<>>), <<"10.9.9.9", ",", "10.0.0.2">>)}

AddressOutcomes == {Response(NoMap, <<>>, FALSE)}

InitAddress ==
    /\ default_rate_limit = 2
    /\ rate_limited_endpoints = <<>>
    /\ blacklisted_ips \in {{}, {"10.9.9.9"}}
    /\ whitelisted_ips = {"127.0.0.1"}
    /\ enable_session = FALSE
    /\ associated_session_cookies = <<>>
    /\ port = StaticListenerPort
    /\ settings_session_is_secure = FALSE
    /\ trust_x_forwarded_for \in BOOLEAN
    /\ session_files = NoMap
    /\ Start

NextAddress ==
    \/ \E ip \in IPs : Accept(ip, 1, MaxAddressConns)
    \/ \E c \in DOMAIN conns : OnRead(c, AddressRequests, AddressOutcomes, {"written"})
    \/ \E c \in DOMAIN conns : OnWrite(c)

SpecAddress == InitAddress /\ [][NextAddress]_vars

(***************************************************************************)
(* The rate limiter.                                                       *)
(***************************************************************************)
\* The limit that applies to an entry: the override of its endpoint, else the default.
LimitOf(key) == RateLimitFor(rate_limited_endpoints, key[2], default_rate_limit)

\* The connections that went through the limiter under a key, and those it admitted.
Limited(key) ==
    {c \in DOMAIN conns : /\ TrackerKey(conns[c].ip, conns[c].ep) = key
                          /\ conns[c].adm \in {"created", "counted", "reset", "limited"}}

Passed(key) == {c \in Limited(key) : conns[c].adm # "limited"}

\* The connection of the key that came last before c, 0 when c is its first.
Before(key, c) ==
    IF \E d \in Limited(key) : d < c
    THEN CHOOSE d \in Limited(key) : d < c /\ \A e \in Limited(key) : e < c => e <= d
    ELSE 0

\* C1 as stated: in every reachable state every entry's count is at most the limit
\* that applies to the entry, whatever the configured limit.
C1_CountWithinLimit ==
    \A key \in DOMAIN rate_limit_tracker :
        rate_limit_tracker[key].request_count <= LimitOf(key)

\* C1 as amended: in every reachable state every entry's count is at most the limit
\* that applies to the entry when that limit is 1 or more; under a limit below 1 the
\* count is 1, since the request that opens a window is admitted without a look at the
\* limit.
C1_CountWithinPositiveLimit ==
    \A key \in DOMAIN rate_limit_tracker :
        /\ LimitOf(key) >= 1 => rate_limit_tracker[key].request_count <= LimitOf(key)
        /\ LimitOf(key) < 1 => rate_limit_tracker[key].request_count = 1

\* An entry that is full under a limit of 2, with a request turned away by it.
C1_Witness ==
    \E key \in DOMAIN rate_limit_tracker :
        /\ LimitOf(key) = 2
        /\ rate_limit_tracker[key].request_count = 2
        /\ \E c \in Limited(key) : conns[c].adm = "limited"

\* What C2 says of one key under the limit L: the requests admitted in one window
\* are at most L; a request is turned away only inside the window and only after L
\* were admitted in it; a request that arrives less than 60000 ms after the window
\* start stays in that window, one that arrives 60000 ms or more after it is admitted
\* and opens a window at its own arrival time; the entry holds the start of the latest
\* window and the number of requests admitted in it.
WindowRule(key, L) ==
    /\ \A c \in Passed(key) :
          Cardinality({d \in Passed(key) : conns[d].ws = conns[c].ws}) <= L
    /\ \A c \in Limited(key) :
          /\ conns[c].adm = "limited" =>
                /\ conns[c].t - conns[c].ws < Window
                /\ Cardinality({d \in Passed(key) : d < c /\ conns[d].ws = conns[c].ws}) >= L
          /\ LET p == Before(key, c)
             IN  IF p = 0 THEN conns[c].adm = "created" /\ conns[c].ws = conns[c].t
                 ELSE IF conns[c].t - conns[p].ws >= Window
                 THEN conns[c].adm = "reset" /\ conns[c].ws = conns[c].t
                 ELSE conns[c].adm \in {"counted", "limited"} /\ conns[c].ws = conns[p].ws
    /\ \A c \in Limited(key) :
          (\A d \in Limited(key) : d <= c) =>
              /\ rate_limit_tracker[key].last_request_time = conns[c].ws
              /\ rate_limit_tracker[key].request_count =
                    Cardinality({d \in Passed(key) : conns[d].ws = conns[c].ws})

\* C2 as stated: the window rule holds for every key, whatever its limit.
C2_WindowRuleAnyLimit ==
    \A key \in DOMAIN rate_limit_tracker : WindowRule(key, LimitOf(key))

\* C2 as amended: for a limit L of 1 or more and one key, of the requests arriving less
\* than 60000 ms after the entry's window start at most L are admitted and every
\* further one in that window is rejected; the first request arriving 60000 ms or more
\* after the window start is admitted and sets the entry to (now, 1).
C2_WindowRule ==
    \A key \in DOMAIN rate_limit_tracker :
        LimitOf(key) >= 1 => WindowRule(key, LimitOf(key))

\* A key under a limit of 1: a request turned away in the window, and a later one that
\* arrives exactly 60000 ms after the window start and opens the next window.
C2_Witness ==
    \E key \in DOMAIN rate_limit_tracker :
        /\ LimitOf(key) = 1
        /\ \E c, d \in Limited(key) :
              /\ c < d
              /\ conns[c].adm = "limited"
              /\ conns[d].adm = "reset"
              /\ conns[d].t - conns[c].ws = Window
              /\ rate_limit_tracker[key].request_count = 1

(***************************************************************************)
(* Admission.                                                              *)
(***************************************************************************)
InPhases(c, ph) == \E i \in DOMAIN conns[c].phases : conns[c].phases[i] = ph

\* C3: a connection from a blacklisted address is rejected without a response and
\* never reaches the callback, also when the address is in the whitelist too.
C3_BlacklistedRejected ==
    \A c \in DOMAIN conns :
        conns[c].ip \in blacklisted_ips =>
            /\ conns[c].phases = <<"ACCEPTED", "REJECTED">>
            /\ conns[c].cb = 0

\* C4: a connection rejected at admission (blacklist or rate limit) never enters
\* PARSED: no read is started for it, the callback is not invoked, the session store
\* is neither read nor written and no response is written.
C4_RejectedStops ==
    \A c \in DOMAIN conns :
        conns[c].adm \in {"blacklist", "limited"} =>
            /\ conns[c].phases = <<"ACCEPTED", "REJECTED">>
            /\ conns[c].io = "none"
            /\ conns[c].cb = 0
            /\ conns[c].store = {}
            /\ conns[c].method = ""

\* A connection rejected by the rate limiter, while a connection accepted after it has
\* had its session record written and its response sent.
C4_Witness ==
    \E c, d \in DOMAIN conns :
        /\ conns[c].adm = "limited"
        /\ c < d
        /\ InPhases(d, "WRITTEN")
        /\ "write" \in conns[d].store


(***************************************************************************)
(* Sessions.  last is the record of the latest run of handle_request.      *)
(***************************************************************************)
HasCookie(cookies, name) == \E i \in DOMAIN cookies : cookies[i].name = name

\* C5: with session support enabled, a request whose session cookie is missing or
\* names an identifier without a backing record reaches the callback with an empty
\* session map and an empty session identifier, and its response carries a session
\* cookie with an identifier minted by the server; no record is written under the
\* identifier the client sent.  (Stated for the responses that are sent and in which
\* the callback set no session cookie of its own.)
C5_FreshSessionCookie ==
    (/\ enable_session /\ last.returned /\ last.sent /\ ~last.exists
     /\ ~HasCookie(last.cb_cookies, session_cookie_name))
    => /\ last.req_session = NoMap
       /\ last.req_session_id = <<>>
       /\ \E i \in DOMAIN last.set_cookies :
             /\ last.set_cookies[i].name = session_cookie_name
             /\ last.set_cookies[i].value \in MintPool
             /\ last.set_cookies[i].value = last.minted
       /\ ~last.written

\* C6: for a request with a valid session the record persisted after the callback is
\* the record stored before the merge overlaid with the response's session updates:
\* every key of the update has the update's value, every other key keeps its stored
\* value, and no key is removed or added besides.
C6_MergeOverlay ==
    (last.exists /\ last.written)
    => /\ DOMAIN last.persisted = DOMAIN last.stored \cup DOMAIN last.update
       /\ \A k \in DOMAIN last.update :
             k \in DOMAIN last.persisted /\ last.persisted[k] = last.update[k]
       /\ \A k \in DOMAIN last.stored \ DOMAIN last.update :
             k \in DOMAIN last.persisted /\ last.persisted[k] = last.stored[k]

\* C7: when two connections with the same valid session identifier, whose callbacks
\* wrote different keys, have both completed (and no other connection wrote to the
\* record), the persisted record holds both connections' keys with the values written.
C7_NoLostUpdate ==
    \A c, d \in DOMAIN conns :
        (/\ c # d
         /\ conns[c].valid /\ conns[d].valid /\ conns[c].sid = conns[d].sid
         /\ "write" \in conns[c].store /\ "write" \in conns[d].store
         /\ InPhases(c, "CLOSED") /\ InPhases(d, "CLOSED")
         /\ DOMAIN conns[c].upd # {} /\ DOMAIN conns[d].upd # {}
         /\ DOMAIN conns[c].upd \cap DOMAIN conns[d].upd = {}
         /\ \A e \in DOMAIN conns \ {c, d} :
               ~("write" \in conns[e].store /\ conns[e].sid = conns[c].sid))
        => LET record == read_from_session_file(session_files, conns[c].sid)
           IN  \A e \in {c, d} : \A k \in DOMAIN conns[e].upd :
                   k \in DOMAIN record /\ record[k] = conns[e].upd[k]

\* C8: when the session cookie of a request names an identifier without a backing
\* record, the session cookie and every associated cookie are out of the request's
\* cookie list when the callback runs, and the response deletes each of them: the
\* session cookie's name and every associated name.
C8_InvalidSessionCookiesErased ==
    /\ (last.erase /\ last.called) =>
          \A i \in DOMAIN last.req_cookies :
              /\ last.req_cookies[i].name # session_cookie_name
              /\ last.req_cookies[i].name \notin Range(associated_session_cookies)
    /\ (last.erase /\ last.sent) =>
          \A n \in {session_cookie_name} \cup Range(associated_session_cookies) :
              n \in Range(last.deletes)

(***************************************************************************)
(* The pipeline.                                                           *)
(***************************************************************************)
FullPath ==
    <<"ACCEPTED", "ADMITTED", "PARSED", "SESSION_RESOLVED", "DISPATCHED",
      "RESPONSE_BUILT", "WRITTEN">>

OptionsPath == <<"ACCEPTED", "ADMITTED", "PARSED", "RESPONSE_BUILT", "WRITTEN">>

\* The states a connection went through, without the final CLOSED.
Trunk(phases) ==
    IF phases # <<>> /\ phases[Len(phases)] = "CLOSED"
    THEN SubSeq(phases, 1, Len(phases) - 1) ELSE phases

IsPrefix(p, q) == Len(p) <= Len(q) /\ SubSeq(q, 1, Len(p)) = p

C10_CallbackErrorAnswered ==
    \A c \in DOMAIN conns :
        conns[c].threw = "callback" =>
            /\ server # "terminated"
            /\ conns[c].io = "write" \/ InPhases(c, "WRITTEN")

(***************************************************************************)
(* Stopping the server.                                                    *)
(***************************************************************************)
\* The connections whose response had the stop flag: handle_request closed the socket
\* after the callback and returned without a response.
Stopped(c) ==
    LET ph == conns[c].phases
    IN  Len(ph) >= 2 /\ ph[Len(ph) - 1] = "DISPATCHED" /\ ph[Len(ph)] = "CLOSED"

\* C11: once a connection whose response has the stop flag has been handled, nothing
\* accepts connections any more: the loop of the listener on the configured port has
\* ended and no other listener accepts, so every connection ever accepted was accepted
\* by the listener of server::server.
C11_StopStopsAccepting ==
    /\ (\E c \in DOMAIN conns : Stopped(c)) => server \notin {"main", "instance"}
    /\ \A c \in DOMAIN conns : conns[c].lst = "main"

(***************************************************************************)
(* Admission, continued.                                                   *)
(***************************************************************************)
\* C12: the entry consulted and updated at the admission of a request is the one of
\* (client address, endpoint of that request), and the limit applied is the one of that
\* endpoint.  Stated for the connections whose request was read, since only for them
\* the endpoint is known.
C12_OwnEndpointKey ==
    \A c \in DOMAIN conns :
        (InPhases(c, "PARSED") /\ conns[c].adm \in {"created", "counted", "reset"}) =>
            /\ conns[c].ep = conns[c].target
            /\ TrackerKey(conns[c].ip, conns[c].target) \in DOMAIN rate_limit_tracker

\* C13: the acceptance of a connection from an address that is in the whitelist and not
\* in the blacklist admits the connection and leaves the rate-limit table unchanged.
C13_WhitelistBypass ==
    [][(Len(conns') = Len(conns) + 1
        /\ conns'[Len(conns')].ip \in whitelisted_ips \ blacklisted_ips)
       => /\ rate_limit_tracker' = rate_limit_tracker
          /\ conns'[Len(conns')].phases = <<"ACCEPTED", "ADMITTED">>
          /\ conns'[Len(conns')].io = "read"]_vars

\* A whitelisted address admitted for the third time under a limit of 1, the table
\* holding no entry for it while another address has used up its limit.
C13_Witness ==
    \E c, e \in DOMAIN conns :
        /\ conns[c].ip \in whitelisted_ips \ blacklisted_ips
        /\ conns[c].adm = "whitelist"
        /\ Cardinality({d \in DOMAIN conns : d < c /\ conns[d].ip = conns[c].ip}) >= 2
        /\ LimitOf(TrackerKey(conns[c].ip, EmptyTarget)) = 1
        /\ \A key \in DOMAIN rate_limit_tracker : key[1] # conns[c].ip
        /\ conns[e].adm = "limited"

(***************************************************************************)
(* Sessions, continued.                                                    *)
(***************************************************************************)
\* The cookies of the latest response that the pipeline minted.
MintedCookies ==
    {i \in DOMAIN last.set_cookies :
        /\ last.minted # <<>>
        /\ last.set_cookies[i].name = session_cookie_name
        /\ last.set_cookies[i].value = last.minted}

\* C14: the Set-Cookie header of every session cookie minted by the pipeline has
\* HttpOnly and SameSite=Strict, and it has Secure exactly when session_is_secure is
\* set in the settings given to server::server.
C14_MintedCookieAttributes ==
    last.sent =>
        \A i \in MintedCookies :
            \A order \in Orders(DOMAIN last.set_cookies[i].extra_attributes) :
                LET header == Range(SetCookieHeader(last.set_cookies[i], order).attributes)
                IN  /\ "HttpOnly" \in header
                    /\ "SameSite=Strict" \in header
                    /\ ("Secure" \in header) <=> settings_session_is_secure

\* C15: when the pipeline has minted an identifier for a response and the response has
\* been written, the session file of that identifier exists, so that the next request
\* with the cookie finds a valid session.
C15_MintCreatesRecord ==
    (last.c # 0 /\ MintedCookies # {} /\ InPhases(last.c, "WRITTEN")) =>
        Sanitize(last.minted) \in DOMAIN session_files

C17_StorageErrors ==
    /\ (last.merges /\ ~last.exists) =>
          /\ last.stored = NoMap
          /\ last.req_session = NoMap
          /\ conns[last.c].threw \in {"none", "session_write"}
    /\ last.write_error # "none" =>
          /\ ~last.sent
          /\ conns[last.c].threw = "session_write"
          /\ ~InPhases(last.c, "RESPONSE_BUILT")

(***************************************************************************)
(* The parsing functions.  Each is a function of its arguments (and of the *)
(* files it finds); a specification draws the arguments of one call at the *)
(* start and its action is the call.  Strings are sequences of characters. *)
(***************************************************************************)
MaxHeaderLen == 4

\* Every string of at most n characters of the set chars.
Strings(chars, n) == UNION {[1..k -> chars] : k \in 0..n}

\* The server at rest, as the specifications of the parsing functions have it.
ServerAtRest ==
    /\ DefaultAdmissionSettings
    /\ PlainSettings
    /\ rate_limit_tracker = NoMap
    /\ now = 0
    /\ conns = <<>>
    /\ server = "main"
    /\ last = NoLast

Returned(value) == [done |-> TRUE, threw |-> FALSE, value |-> value]

\* The loop of get_cookies_from_request over cookie_str, which ends with a ';'.  In a
\* segment without '=' find gives npos: substr(0, npos) and substr(npos + 1), which is
\* substr(0), are both the whole segment.  The test for an empty name comes before the
\* leading space is taken off.
RECURSIVE CookieLoop(_)
CookieLoop(cookie_str) ==
    LET semi == IndexOf(cookie_str, ";")
    IN  IF semi = 0 THEN <<>>
        ELSE LET cookie == SubSeq(cookie_str, 1, semi - 1)
                 eq == IndexOf(cookie, "=")
                 name == IF eq = 0 THEN cookie ELSE SubSeq(cookie, 1, eq - 1)
                 value == IF eq = 0 THEN cookie ELSE SubSeq(cookie, eq + 1, Len(cookie))
             IN  (IF name # <<>> /\ value # <<>>
                  THEN <<Cookie(IF Head(name) = " " THEN Tail(name) ELSE name, value)>>
                  ELSE <<>>)
                 \o CookieLoop(SubSeq(cookie_str, semi + 1, Len(cookie_str)))

get_cookies_from_request(cookie_header) == CookieLoop(cookie_header \o <<";">>)

\* The characters of the Cookie headers of the model.
CookieChars == {"a", "=", ";", " "}

InitCookies ==
    /\ ServerAtRest
    /\ call \in {[fn |-> "get_cookies_from_request", cookie_header |-> h] :
                    h \in Strings(CookieChars, MaxHeaderLen)}
    /\ result = NoResult
    /\ disk = NoMap

GetCookies ==
    /\ call.fn = "get_cookies_from_request"
    /\ ~result.done
    /\ result' = Returned(get_cookies_from_request(call.cookie_header))
    /\ UNCHANGED <<config, rate_limit_tracker, session_files, now, conns, server, last,
                   call, disk>>

NextCookies == GetCookies

SpecCookies == InitCookies /\ [][NextCookies]_vars

\* The segments of a Cookie header: the texts between its ';'.
RECURSIVE Segments(_)
Segments(s) ==
    LET semi == IndexOf(s, ";")
    IN  IF semi = 0 THEN <<s>>
        ELSE <<SubSeq(s, 1, semi - 1)>> \o Segments(SubSeq(s, semi + 1, Len(s)))

\* C18: every cookie that the parser returns for a Cookie header has a name and a
\* value that are not empty, and it comes from a segment of the header: its name is the
\* text before the segment's first '=' (the whole segment when it has none) without
\* one leading space, its value the text after that '='.
C18_CookiesNonEmpty ==
    (call.fn = "get_cookies_from_request" /\ result.done) =>
        \A i \in DOMAIN result.value :
            LET ck == result.value[i]
            IN  /\ ck.name # <<>>
                /\ ck.value # <<>>
                /\ \E seg \in Range(Segments(call.cookie_header)) :
                      LET eq == IndexOf(seg, "=")
                          before == IF eq = 0 THEN seg ELSE SubSeq(seg, 1, eq - 1)
                      IN  /\ ck.name = IF before # <<>> /\ Head(before) = " "
                                       THEN Tail(before) ELSE before
                          /\ eq # 0 => ck.value = SubSeq(seg, eq + 1, Len(seg))

(***************************************************************************)
(* The multipart parsers of http_utils.hpp.  Positions are those of        *)
(* std::string: they count from 0, find gives npos when there is no match, *)
(* and the arithmetic on them is that of size_t, here with SizeBits bits.  *)
(***************************************************************************)
SizeBits == 16

NPos == 2^SizeBits - 1

SizeT(n) == n % (NPos + 1)

Least(S) == CHOOSE x \in S : \A y \in S : x <= y

Greatest(S) == CHOOSE x \in S : \A y \in S : y <= x

\* str.find(pat, from)
RECURSIVE Find(_, _, _)
Find(str, pat, from) ==
    IF from + Len(pat) > Len(str) THEN NPos
    ELSE IF SubSeq(str, from + 1, from + Len(pat)) = pat THEN from
    ELSE Find(str, pat, from + 1)

\* str.substr(pos, n), which throws std::out_of_range when pos > size().
OutOfRange(str, pos) == pos > Len(str)

Substr(str, pos, n) ==
    SubSeq(str, pos + 1, IF pos + n < Len(str) THEN pos + n ELSE Len(str))

\* The lambda split of both parsers.
RECURSIVE SplitFrom(_, _, _)
SplitFrom(str, delimiter, start) ==
    LET end == Find(str, delimiter, start)
    IN  IF end = NPos THEN <<Substr(str, start, end)>>
        ELSE <<Substr(str, start, end - start)>>
             \o SplitFrom(str, delimiter, end + Len(delimiter))

split(str, delimiter) == SplitFrom(str, delimiter, 0)

\* The characters that trim takes off (the vertical tab, which has no notation here,
\* is left out).
Whitespace == {" ", "\t", "\n", "\r", "\f"}

\* The lambda trim of both parsers.
trim(str) ==
    LET kept == {i \in DOMAIN str : str[i] \notin Whitespace}
    IN  IF kept = {} THEN <<>> ELSE SubSeq(str, Least(kept), Greatest(kept))

CRLF == <<"\r", "\n">>

BlankLine == CRLF \o CRLF

BoundaryEq == <<"b", "o", "u", "n", "d", "a", "r", "y", "=">>

FilenameEq == <<"f", "i", "l", "e", "n", "a", "m", "e", "=">>

NameEq == <<"n", "a", "m", "e", "=">>

SpaceNameEq == <<" ">> \o NameEq

SemiNameEq == <<";">> \o NameEq

Quote == <<"\"">>

DashDash == <<"-", "-">>

\* sha256hash(data): the digest stands for itself, as a string that data determines
\* and that differs from data.  A digest is made of hexadecimal digits: it holds no '%'.
sha256hash(data) == <<"#">> \o [i \in DOMAIN data |-> IF data[i] = "%" THEN "5" ELSE data[i]]

\* while (path.find(pat) != npos) path.replace(path.find(pat), 2, with);
RECURSIVE ReplaceLoop(_, _, _)
ReplaceLoop(path, pat, with) ==
    LET at == Find(path, pat, 0)
    IN  IF at = NPos THEN path
        ELSE ReplaceLoop(Substr(path, 0, at) \o with \o Substr(path, at + 2, NPos), pat, with)

\* The loop above never ends: path holds pat, and every turn puts a pat back with the
\* text it inserts.
Diverges(path, pat, with) == Find(path, pat, 0) # NPos /\ Find(with, pat, 0) # NPos

\* std::ofstream of{file.path}: a file with an empty name cannot be opened.
CanOpen(path) == path # <<>>

Remove(files, path) == [q \in DOMAIN files \ {path} |-> files[q]]

\* The loop over file.filename that erases every '/' and every '\'.
sanitize_filename_keep(filename) == filename

sanitize_filename(filename) == SelectSeq(filename, LAMBDA ch : ch \notin {"/", "\\"})

\* The loop over ret at the end of a part: the size goes to the first record of the
\* name, and a new record is pushed when there is none.
AddFile(ret, file) ==
    IF \E i \in DOMAIN ret : ret[i].name = file.name
    THEN LET i == Least({j \in DOMAIN ret : ret[j].name = file.name})
         IN  [ret EXCEPT ![i].size = @ + file.size]
    ELSE Append(ret, file)

\* One turn of the loop of parse_multipart_form_file.  st holds ret, the files, whether
\* an exception left the function, and (log) what became of the parts that got as far
\* as the opening of their file.
FilePart(part, format, max_chunk_size, random, st) ==
    LET end == Find(part, BlankLine, 0)
        headers == Substr(part, 0, end)
        content == Substr(part, end + 4, NPos)
        pos == Find(headers, FilenameEq, 0)
        filename_start == SizeT(Find(headers, Quote, pos) + 1)
        filename_end == Find(headers, Quote, filename_start)
        filename == sanitize_filename(Substr(headers, filename_start,
                                             SizeT(filename_end - filename_start)))
        spaced == Find(headers, SpaceNameEq, 0)
        pos2 == IF spaced = NPos THEN Find(headers, SemiNameEq, 0) ELSE spaced
        name_start == SizeT(Find(headers, Quote, pos2) + 1)
        name_end == Find(headers, Quote, name_start)
        name == Substr(headers, name_start, SizeT(name_end - name_start))
        sha256 == sha256hash(name)
        named == ReplaceLoop(format, <<"%", "f">>, name)
        hashed == ReplaceLoop(named, <<"%", "h">>, sha256)
        path == ReplaceLoop(hashed, <<"%", "r">>, random)
        hangs == \/ Diverges(format, <<"%", "f">>, name)
                 \/ Diverges(named, <<"%", "h">>, sha256)
                 \/ Diverges(hashed, <<"%", "r">>, random)
        data == trim(content)
        file == [name |-> name, filename |-> filename, path |-> path, sha256 |-> sha256,
                 size |-> Len(data)]
        entry(verdict) == [name |-> name, path |-> path, data |-> data, verdict |-> verdict]
    IN  IF part = <<>> \/ part = DashDash \o CRLF THEN st
        ELSE IF end = NPos THEN st
        ELSE IF pos = NPos THEN st
        ELSE IF SizeT(pos - 1) >= Len(headers)
        THEN [st EXCEPT !.threw = TRUE]            \* headers.at(pos - 1)
        ELSE IF headers[SizeT(pos - 1) + 1] \notin {" ", ";"} THEN st
        ELSE IF filename_start = NPos \/ filename_end = NPos THEN st
        ELSE IF filename = <<>> THEN st
        ELSE IF pos2 = NPos THEN st
        ELSE IF name_start = NPos \/ name_end = NPos THEN st
        ELSE IF hangs THEN [st EXCEPT !.hangs = TRUE]
        ELSE IF ~CanOpen(path) THEN st
        ELSE IF file.size > max_chunk_size
        THEN [st EXCEPT !.disk = Remove(@, path),
                        !.log = Append(@, entry("rejected"))]
        ELSE [st EXCEPT !.disk = Put(@, path, data),
                        !.ret = IF name # <<>> /\ data # <<>> THEN AddFile(@, file) ELSE @,
                        !.log = Append(@, entry("written"))]

RECURSIVE FileParts(_, _, _, _, _)
FileParts(parts, format, max_chunk_size, random, st) ==
    IF parts = <<>> \/ st.threw \/ st.hangs THEN st
    ELSE FileParts(Tail(parts), format, max_chunk_size, random,
                   FilePart(Head(parts), format, max_chunk_size, random, st))

parse_multipart_form_file(request, format, max_chunk_size, random, files) ==
    LET boundary_pos == Find(request, BoundaryEq, 0)
        boundary_end == Find(request, CRLF, boundary_pos)
        boundary == DashDash \o Substr(request, boundary_pos + 9,
                                       SizeT(boundary_end - boundary_pos - 9))
        st == [threw |-> FALSE, hangs |-> FALSE, ret |-> <<>>, disk |-> files, log |-> <<>>]
    IN  IF boundary_pos = NPos \/ boundary_end = NPos THEN st
        ELSE FileParts(split(request, boundary), format, max_chunk_size, random, st)

\* One turn of the loop of parse_multipart_form_data.
DataPart(part, max_len, st) ==
    LET header_end == Find(part, BlankLine, 0)
        headers == Substr(part, 0, header_end)
        content == Substr(part, header_end + 4, NPos)
        name_pos == Find(headers, NameEq, 0)
        name_start == SizeT(Find(headers, Quote, name_pos) + 1)
        name_end == Find(headers, Quote, name_start)
        key == IF name_pos = NPos THEN <<>>
               ELSE Substr(headers, name_start, SizeT(name_end - name_start))
        value == trim(content)
    IN  IF part = <<>> \/ part = DashDash \o CRLF THEN st
        ELSE IF header_end = NPos THEN st
        ELSE IF Find(headers, FilenameEq, 0) # NPos THEN st
        ELSE IF name_pos # NPos /\ SizeT(name_end - name_start) > max_len THEN st
        ELSE IF name_pos # NPos /\ OutOfRange(headers, name_start)
        THEN [st EXCEPT !.threw = TRUE]
        ELSE IF Len(value) > max_len THEN st
        ELSE IF key # <<>> THEN [st EXCEPT !.ret = Put(@, key, value)]
        ELSE st

RECURSIVE DataParts(_, _, _)
DataParts(parts, max_len, st) ==
    IF parts = <<>> \/ st.threw THEN st
    ELSE DataParts(Tail(parts), max_len, DataPart(Head(parts), max_len, st))

parse_multipart_form_data(request, max_len) ==
    LET boundary_pos == Find(request, BoundaryEq, 0)
        boundary_end == Find(request, CRLF, boundary_pos)
        boundary == DashDash \o Substr(request, boundary_pos + 9,
                                       SizeT(boundary_end - boundary_pos - 9))
        st == [threw |-> FALSE, ret |-> NoMap]
    IN  IF boundary_pos = NPos THEN st
        ELSE DataParts(split(request, boundary), max_len, st)

\* The requests of the model: a head (with a boundary line, without one, with one that
\* has no terminator), two parts or fewer, and the closing line.  A part is a file
\* part of name f or g with the content a or abc, a file part whose filename is made
\* of separators or holds some, a part without name attribute, a part whose headers
\* begin with filename=, a part without blank line, a part without quotes, or a form
\* field.  A request goes with the list of what its parts were written from.
Heads == { <<"b", "o", "u", "n", "d", "a", "r", "y", "=", "X", "\r", "\n">>,
           <<>>,
           <<"b", "o", "u", "n", "d", "a", "r", "y", "=", "X">> }

FilePartText(name, filename, content) ==
    <<"-", "-", "X", "\r", "\n", "D", ";", " ", "n", "a", "m", "e", "=", "\"">> \o name
    \o <<"\"", ";", " ", "f", "i", "l", "e", "n", "a", "m", "e", "=", "\"">> \o filename
    \o <<"\"", "\r", "\n", "\r", "\n">> \o content \o CRLF

FieldPartText(name, value) ==
    <<"-", "-", "X", "\r", "\n", "D", ";", " ", "n", "a", "m", "e", "=", "\"">> \o name \o <<"\"", "\r", "\n", "\r", "\n">> \o value \o CRLF

Part(kind, name, filename, content) ==
    [kind |-> kind, name |-> name, filename |-> filename, content |-> content]

FilePartInputs == {Part("file", n, <<"a">>, c) : n \in {<<"f">>, <<"g">>},
                                             c \in {<<"a">>, <<"a", "b", "c">>}}
              \cup {Part("file", <<"f">>, <<"/">>, <<"a">>),
                    Part("file", <<"g">>, <<"\\", "a", "/">>, <<"a">>),
                    Part("file", <<"%", "f">>, <<"a">>, <<"a">>),
                    Part("file", <<"%", "h">>, <<"a">>, <<"a">>)}

PartTexts ==
    { [text |-> <<>>, part |-> Part("none", <<>>, <<>>, <<>>)] }
    \cup { [text |-> FilePartText(p.name, p.filename, p.content), part |-> p] : p \in FilePartInputs }
    \cup { [text |-> <<"-", "-", "X", "\r", "\n", "D", ";", " ", "f", "i", "l", "e", "n", "a", "m", "e", "=", "\"", "a", "\"", "\r", "\n", "\r", "\n", "a", "\r", "\n">>,
            part |-> Part("no_name", <<>>, <<"a">>, <<"a">>)],
           [text |-> <<"-", "-", "X", "f", "i", "l", "e", "n", "a", "m", "e", "=", "\"", "a", "\"", ";", " ", "n", "a", "m", "e", "=", "\"", "f", "\"", "\r", "\n", "\r", "\n", "a", "\r", "\n">>,
            part |-> Part("no_disposition", <<"f">>, <<"a">>, <<"a">>)],
           [text |-> <<"-", "-", "X", "\r", "\n", "D", ";", " ", "n", "a", "m", "e", "=", "\"", "f", "\"", ";", " ", "f", "i", "l", "e", "n", "a", "m", "e", "=", "\"", "a", "\"", "\r", "\n">>,
            part |-> Part("no_blank_line", <<"f">>, <<"a">>, <<>>)],
           [text |-> <<"-", "-", "X", "\r", "\n", "D", ";", " ", "n", "a", "m", "e", "=", "f", ";", " ", "f", "i", "l", "e", "n", "a", "m", "e", "=", "a", "\r", "\n", "\r", "\n", "a", "\r", "\n">>,
            part |-> Part("no_quotes", <<"f">>, <<"a">>, <<"a">>)],
           [text |-> FieldPartText(<<"k">>, <<"v">>),
            part |-> Part("field", <<"k">>, <<>>, <<"v">>)] }

Closing == <<"-", "-", "X", "-", "-", "\r", "\n">>

\* The request of a form with the field k of value v and the file t.txt of content
\* hello in the field f.
ExampleParts == << Part("field", <<"k">>, <<>>, <<"v">>),
                  Part("file", <<"f">>, <<"t", ".", "t", "x", "t">>, <<"h", "e", "l", "l", "o">>) >>

ExampleRequest ==
    <<"b", "o", "u", "n", "d", "a", "r", "y", "=", "X", "\r", "\n", "\r", "\n">> \o FieldPartText(<<"k">>, <<"v">>)
    \o FilePartText(<<"f">>, <<"t", ".", "t", "x", "t">>, <<"h", "e", "l", "l", "o">>) \o Closing

MultipartRequests ==
    {[request |-> h \o p.text \o q.text \o Closing, parts |-> <<p.part, q.part>>] :
        h \in Heads, p \in PartTexts, q \in PartTexts}
    \cup {[request |-> ExampleRequest, parts |-> ExampleParts]}

\* The output formats, the limits and the random string of the model.
Formats == { <<"%", "f">>, <<"u">>, <<"%", "h", "%", "r">> }

ChunkSizes == {2, 5}

MaxLens == {2}

RandomStrings == {<<"r">>}

InitMultipart ==
    /\ ServerAtRest
    /\ call \in {[fn |-> "parse_multipart_form_file", request |-> r.request,
                  parts |-> r.parts, format |-> f, max_chunk_size |-> m, random |-> x] :
                     r \in MultipartRequests, f \in Formats, m \in ChunkSizes,
                     x \in RandomStrings}
               \cup {[fn |-> "parse_multipart_form_data", request |-> r.request,
                      parts |-> r.parts, max_len |-> m] :
                        r \in MultipartRequests, m \in MaxLens}
    /\ result = NoResult
    /\ disk = NoMap

ParseMultipartFormFile ==
    /\ call.fn = "parse_multipart_form_file"
    /\ ~result.done
    /\ LET st == parse_multipart_form_file(call.request, call.format, call.max_chunk_size,
                                           call.random, disk)
       IN  /\ result' = IF st.hangs THEN [done |-> FALSE, hangs |-> TRUE]
                         ELSE [done |-> TRUE, threw |-> st.threw, value |-> st.ret,
                               log |-> st.log]
           /\ disk' = st.disk
    /\ UNCHANGED <<config, rate_limit_tracker, session_files, now, conns, server, last, call>>

ParseMultipartFormData ==
    /\ call.fn = "parse_multipart_form_data"
    /\ ~result.done
    /\ LET st == parse_multipart_form_data(call.request, call.max_len)
       IN  result' = [done |-> TRUE, threw |-> st.threw, value |-> st.ret]
    /\ UNCHANGED <<config, rate_limit_tracker, session_files, now, conns, server, last,
                   call, disk>>

NextMultipart ==
    \/ ParseMultipartFormFile
    \/ ParseMultipartFormData

SpecMultipart == InitMultipart /\ [][NextMultipart]_vars

\* C19: a call of parse_multipart_form_data or parse_multipart_form_file returns a
\* result, whatever the input, and the result is empty when the input has no boundary.
C19_MultipartNeverRaises ==
    (call.fn \in {"parse_multipart_form_data", "parse_multipart_form_file"} /\ result.done) =>
        /\ ~result.threw
        /\ Find(call.request, BoundaryEq, 0) = NPos =>
              result.value = IF call.fn = "parse_multipart_form_file" THEN <<>> ELSE NoMap

\* The parts of the latest call that got as far as the opening of their file, by what
\* became of them.
PartsAs(verdict) == {i \in DOMAIN result.log : result.log[i].verdict = verdict}

RECURSIVE SizeOf(_)
SizeOf(S) == IF S = {} THEN 0
             ELSE LET i == Least(S) IN Len(result.log[i].data) + SizeOf(S \ {i})

\* C20: a file part whose trimmed content is larger than max_chunk_size adds no record
\* and no size to the result and leaves no file of its own, and the parts within the
\* limit are as they would be without it: a record's size is the sum over the parts
\* of its name that are within the limit, and the file at a path holds the content of
\* the last part within the limit that was written to the path, no file being there
\* when there is no such part.
C20_OversizeRejected ==
    (call.fn = "parse_multipart_form_file" /\ result.done /\ ~result.threw) =>
        /\ \A i \in PartsAs("rejected") :
              Len(result.log[i].data) > call.max_chunk_size
        /\ \A i \in DOMAIN result.value :
              result.value[i].size =
                 SizeOf({j \in PartsAs("written") :
                            result.log[j].name = result.value[i].name})
        /\ \A i \in DOMAIN result.log :
              LET path == result.log[i].path
                  within == {j \in PartsAs("written") : result.log[j].path = path}
              IN  IF within = {} THEN path \notin DOMAIN disk
                  ELSE /\ path \in DOMAIN disk
                       /\ disk[path] = result.log[Greatest(within)].data

\* The written parts of the latest call that carry the field name of part i.
SameName(i) == {j \in PartsAs("written") : result.log[j].name = result.log[i].name}

\* C21: when several file parts carry the same field name, the result holds exactly
\* one record of the name, its size is the sum of the sizes of the parts, and the file
\* at the record's path holds the content of the first of the parts: the later ones
\* add to the size only.
C21_FirstPartWritten ==
    (call.fn = "parse_multipart_form_file" /\ result.done /\ ~result.threw
        /\ PartsAs("rejected") = {}) =>
        \A i \in PartsAs("written") :
            (Cardinality(SameName(i)) >= 2 /\ result.log[i].name # <<>>) =>
                LET records == {k \in DOMAIN result.value :
                                   result.value[k].name = result.log[i].name}
                IN  /\ Cardinality(records) = 1
                    /\ \A k \in records :
                          /\ result.value[k].size = SizeOf(SameName(i))
                          /\ result.value[k].path \in DOMAIN disk
                          /\ disk[result.value[k].path] = result.log[Least(SameName(i))].data

\* The file parts a request was written from that can give a record of the field
\* name: those with a filename that is more than separators and with a content
\* within the limit.
NoSeparators(filename) == SelectSeq(filename, LAMBDA ch : ch \notin {"/", "\\"})

FilePartsOf(name) ==
    {j \in DOMAIN call.parts :
        /\ call.parts[j].kind = "file"
        /\ call.parts[j].name = name
        /\ NoSeparators(call.parts[j].filename) # <<>>
        /\ Len(call.parts[j].content) <= call.max_chunk_size}

RECURSIVE ContentSize(_)
ContentSize(S) == IF S = {} THEN 0
                  ELSE LET j == Least(S) IN Len(call.parts[j].content) + ContentSize(S \ {j})

\* What C22 says of the records, with the size of a record read as the size of the
\* part that the record was pushed for (summed = FALSE) or as the sum over the parts
\* of the record's name (summed = TRUE), and of the form of the example.
FileRecords(summed) ==
    /\ (call.fn = "parse_multipart_form_file" /\ result.done /\ ~result.threw) =>
          /\ \A i \in DOMAIN result.value :
                LET record == result.value[i]
                    from == FilePartsOf(record.name)
                IN  /\ record.filename # <<>>
                    /\ \A k \in DOMAIN record.filename : record.filename[k] \notin {"/", "\\"}
                    /\ from # {}
                    /\ record.filename = NoSeparators(call.parts[Least(from)].filename)
                    /\ record.size = IF summed THEN ContentSize(from)
                                     ELSE Len(call.parts[Least(from)].content)
          /\ (call.request = ExampleRequest /\ call.max_chunk_size >= 5) =>
                /\ Len(result.value) = 1
                /\ result.value[1].name = <<"f">>
                /\ result.value[1].filename = <<"t", ".", "t", "x", "t">>
                /\ result.value[1].size = 5
    /\ (call.fn = "parse_multipart_form_data" /\ result.done /\ ~result.threw
           /\ call.request = ExampleRequest) =>
          result.value = (<<"k">> :> <<"v">>)

\* C22 as it is written: every file record of parse_multipart_form_file has a
\* filename that is not empty and holds no '/' and no '\', the field name of a file
\* part of the request, and for size the length of that part's trimmed content; parts
\* without filename marker, with a filename of separators only or without name
\* attribute give no record; the example gives the field k = v and one record of size
\* 5 and filename t.txt.
C22_FileRecordPerPart == FileRecords(FALSE)

\* C22 with the size of a record being the sum of the lengths of the trimmed contents
\* of the file parts of its field name that are within the limit (the length of the
\* part's content when the name comes once).
C22_FileRecords == FileRecords(TRUE)

\* The example has been parsed into its one record.
C22_Witness ==
    /\ call.fn = "parse_multipart_form_file"
    /\ call.request = ExampleRequest
    /\ call.max_chunk_size >= 5
    /\ result.done
    /\ ~result.threw
    /\ Len(result.value) = 1
    /\ result.value[1].size = 5

\* ---------------------------------------------------------------------------
\* urlencode and urldecode (http_utils.hpp).  A string is a sequence of bytes,
\* each a number of 0..255.
\* ---------------------------------------------------------------------------
MaxUrlLen == 3

Percent == 37

\* isalnum in the "C" locale, and the four characters - _ . ~ that urlencode keeps.
IsAlnum(c) == c \in (48..57) \cup (65..90) \cup (97..122)

Kept(c) == IsAlnum(c) \/ c \in {45, 95, 46, 126}

\* A digit of std::hex output: 0-9 and a-f.
HexDigit(n) == IF n < 10 THEN 48 + n ELSE 87 + n

\* encoded << '%' << std::setw(2) << int with the fill '0'.
RECURSIVE urlencode(_)
urlencode(str) ==
    IF str = <<>> THEN <<>>
    ELSE LET c == Head(str)
         IN  (IF Kept(c) THEN <<c>>
              ELSE <<Percent, HexDigit(c \div 16), HexDigit(c % 16)>>) \o urlencode(Tail(str))

\* The value of a hexadecimal digit, -1 for another byte.
HexValue(c) == IF c \in 48..57 THEN c - 48
               ELSE IF c \in 97..102 THEN c - 87
               ELSE IF c \in 65..70 THEN c - 55
               ELSE -1

IsSpace(c) == c \in {32} \cup (9..13)

\* iss >> std::hex >> hex_value over the two characters a b: the extraction skips
\* leading white space, takes a sign, and reads digits as long as there are some; it
\* fails when it has read no digit (0x without digit included).  The value is the int
\* as static_cast<char> keeps it.
ParseHex(a, b) ==
    LET digit(c) == HexValue(c) >= 0
        ok(v) == [ok |-> TRUE, value |-> v % 256]
        fail == [ok |-> FALSE, value |-> 0]
    IN  IF IsSpace(a) THEN (IF digit(b) THEN ok(HexValue(b)) ELSE fail)
        ELSE IF a = 43 THEN (IF digit(b) THEN ok(HexValue(b)) ELSE fail)
        ELSE IF a = 45 THEN (IF digit(b) THEN ok(256 - HexValue(b)) ELSE fail)
        ELSE IF a = 48 /\ b \in {120, 88} THEN fail
        ELSE IF digit(a) THEN (IF digit(b) THEN ok(16 * HexValue(a) + HexValue(b))
                               ELSE ok(HexValue(a)))
        ELSE fail

\* i + 2 < str.length(), with i counted from 0.
InRange_short(i, length) == i + 3 < length

InRange(i, length) == i + 2 < length

RECURSIVE DecodeFrom(_, _)
DecodeFrom(str, i) ==
    IF i >= Len(str) THEN <<>>
    ELSE IF str[i + 1] = Percent /\ InRange(i, Len(str))
    THEN LET hex == ParseHex(str[i + 2], str[i + 3])
         IN  IF hex.ok THEN <<hex.value>> \o DecodeFrom(str, i + 3)
             ELSE <<Percent>> \o DecodeFrom(str, i + 1)
    ELSE <<str[i + 1]>> \o DecodeFrom(str, i + 1)

urldecode(str) == DecodeFrom(str, 0)

\* The bytes of the model: % 4 G a, the space, - and the byte 255.
UrlBytes == {Percent, 52, 71, 97, 32, 45, 255}

\* A call of urlencode, a call of urldecode on a string of the model, and the call of
\* urldecode on what urlencode returned (from holds the string that was encoded).
InitUrl ==
    /\ ServerAtRest
    /\ call \in {[fn |-> f, str |-> x, from |-> <<>>] :
                    f \in {"urlencode", "urldecode"}, x \in Strings(UrlBytes, MaxUrlLen)}
    /\ result = NoResult
    /\ disk = NoMap

UrlEncode ==
    /\ call.fn = "urlencode"
    /\ ~result.done
    /\ result' = Returned(urlencode(call.str))
    /\ UNCHANGED <<config, rate_limit_tracker, session_files, now, conns, server, last,
                   call, disk>>

UrlDecodeEncoded ==
    /\ call.fn = "urlencode"
    /\ result.done
    /\ call' = [fn |-> "urldecode", str |-> result.value, from |-> <<call.str>>]
    /\ result' = NoResult
    /\ UNCHANGED <<config, rate_limit_tracker, session_files, now, conns, server, last,
                   disk>>

UrlDecode ==
    /\ call.fn = "urldecode"
    /\ ~result.done
    /\ result' = Returned(urldecode(call.str))
    /\ UNCHANGED <<config, rate_limit_tracker, session_files, now, conns, server, last,
                   call, disk>>

NextUrl ==
    \/ UrlEncode
    \/ UrlDecodeEncoded
    \/ UrlDecode

SpecUrl == InitUrl /\ [][NextUrl]_vars

\* The characters A-Z a-z 0-9 . _ ~ - and the hexadecimal digits, as bytes.
UnreservedBytes == (65..90) \cup (97..122) \cup (48..57) \cup {46, 95, 126, 45}

HexDigitBytes == (48..57) \cup (97..102) \cup (65..70)

\* encoded is str with the unreserved bytes as they are and every other byte as '%'
\* and two hexadecimal digits.
RECURSIVE Encodes(_, _)
Encodes(encoded, str) ==
    IF str = <<>> THEN encoded = <<>>
    ELSE IF Head(str) \in UnreservedBytes
    THEN /\ encoded # <<>>
         /\ Head(encoded) = Head(str)
         /\ Encodes(Tail(encoded), Tail(str))
    ELSE /\ Len(encoded) >= 3
         /\ encoded[1] = Percent
         /\ encoded[2] \in HexDigitBytes
         /\ encoded[3] \in HexDigitBytes
         /\ Encodes(SubSeq(encoded, 4, Len(encoded)), Tail(str))

\* C23: urldecode(urlencode(s)) = s for every byte string s, and urlencode leaves
\* exactly the bytes of [A-Za-z0-9._~-] as they are and writes every other byte as
\* '%' and two hexadecimal digits.
C23_UrlRoundTrip ==
    /\ (call.fn = "urlencode" /\ result.done) => Encodes(result.value, call.str)
    /\ (call.fn = "urldecode" /\ call.from # <<>> /\ result.done) =>
          result.value = call.from[1]

\* The string of '%', the space and the byte 255 has been encoded and decoded back.
C23_Witness ==
    /\ call.fn = "urldecode"
    /\ call.from = << <<Percent, 32, 255>> >>
    /\ call.str = <<Percent, 50, 53, Percent, 50, 48, Percent, 102, 102>>
    /\ result.done
    /\ result.value = <<Percent, 32, 255>>

\* str with every '%' that two hexadecimal digits follow replaced, together with
\* the digits, by the byte that the digits name, and everything else as it is.
RECURSIVE PercentDecoded(_)
PercentDecoded(str) ==
    IF str = <<>> THEN <<>>
    ELSE IF Len(str) >= 3 /\ str[1] = Percent /\ str[2] \in HexDigitBytes
            /\ str[3] \in HexDigitBytes
    THEN <<16 * HexValue(str[2]) + HexValue(str[3])>>
         \o PercentDecoded(SubSeq(str, 4, Len(str)))
    ELSE <<Head(str)>> \o PercentDecoded(Tail(str))

\* C26: urldecode replaces a '%' that two hexadecimal digits follow and nothing
\* else: a '%' at the end, a '%' with one character after it and a '%' with two
\* characters that are not both hexadecimal digits are in the output as they are in
\* the input.
C26_MalformedPassThrough ==
    (call.fn = "urldecode" /\ call.from = <<>> /\ result.done) =>
        result.value = PercentDecoded(call.str)

\* ---------------------------------------------------------------------------
\* htmlspecialchars and htmlspecialchars_decode (http_utils.hpp).
\* ---------------------------------------------------------------------------
MaxHtmlLen == 3

\* ret.replace(pos, n, with), with pos counted from 0.
Replace(ret, pos, n, with) ==
    SubSeq(ret, 1, pos) \o with \o SubSeq(ret, pos + n + 1, Len(ret))

\* The six characters that htmlspecialchars replaces, each with what replaces it.
EntityOf_unclosed(ch) == IF ch = "&" THEN <<"&", "a", "m", "p">> ELSE <<ch>>

EntityOf(ch) ==
    CASE ch = "<" -> <<"&", "l", "t", ";">>
      [] ch = ">" -> <<"&", "g", "t", ";">>
      [] ch = "&" -> <<"&", "a", "m", "p", ";">>
      [] ch = "\"" -> <<"&", "q", "u", "o", "t", ";">>
      [] ch = "'" -> <<"&", "a", "p", "o", "s", ";">>
      [] ch = "\\" -> <<"&", "b", "s", "o", "l", ";">>
      [] OTHER -> <<ch>>

\* The loop of htmlspecialchars: the replacement is made in ret itself and i goes on
\* to the character after the '&' that the replacement begins with.
RECURSIVE EscapeFrom(_, _)
EscapeFrom(ret, i) ==
    IF i >= Len(ret) THEN ret
    ELSE EscapeFrom(Replace(ret, i, 1, EntityOf(ret[i + 1])), i + 1)

htmlspecialchars(str) == EscapeFrom(str, 0)

\* ret.at(i + 1) == name[1] && ret.at(i + 2) == name[2] && ...: the conjunction stops
\* at the first character that differs, and at() throws past the end of ret.
RECURSIVE At(_, _, _, _)
At(ret, i, name, k) ==
    IF k > Len(name) THEN "yes"
    ELSE IF i + k >= Len(ret) THEN "throws"
    ELSE IF ret[i + k + 1] # name[k] THEN "no"
    ELSE At(ret, i, name, k + 1)

\* The names that htmlspecialchars_decode looks for after a '&', in the order of its
\* tests, each with the character it stands for.
EntityName == << <<"l", "t", ";">>, <<"g", "t", ";">>, <<"a", "m", "p", ";">>, <<"q", "u", "o", "t", ";">>, <<"a", "p", "o", "s", ";">>, <<"b", "s", "o", "l", ";">> >>

EntityChar == << "<", ">", "&", "\"", "'", "\\" >>

\* The chain of tests at the '&' of position i, from test n on: ret after the
\* replacement, or that at() threw.
RECURSIVE Tests(_, _, _)
Tests(ret, i, n) ==
    IF n > Len(EntityName) THEN [threw |-> FALSE, value |-> ret]
    ELSE LET at == At(ret, i, EntityName[n], 1)
         IN  IF at = "throws" THEN [threw |-> TRUE, value |-> ret]
             ELSE IF at = "yes"
             THEN [threw |-> FALSE,
                   value |-> Replace(ret, i, Len(EntityName[n]) + 1, <<EntityChar[n]>>)]
             ELSE Tests(ret, i, n + 1)

RECURSIVE UnescapeFrom(_, _)
UnescapeFrom(ret, i) ==
    IF i >= Len(ret) THEN [threw |-> FALSE, value |-> ret]
    ELSE IF ret[i + 1] # "&" THEN UnescapeFrom(ret, i + 1)
    ELSE LET tested == Tests(ret, i, 1)
         IN  IF tested.threw THEN tested ELSE UnescapeFrom(tested.value, i + 1)

htmlspecialchars_decode(str) == UnescapeFrom(str, 0)

\* The strings of the model: for htmlspecialchars the strings over the six
\* characters and a, and the text of two entities; for a call of
\* htmlspecialchars_decode on its own the strings over & l t ;.
HtmlChars == {"<", ">", "&", "\"", "'", "\\", "a"}

HtmlTexts == Strings(HtmlChars, MaxHtmlLen) \cup { <<"&", "l", "t", ";">>, <<"&", "a", "m", "p", ";">> }

EntityChars == {"&", "l", "t", ";"}

InitHtml ==
    /\ ServerAtRest
    /\ call \in {[fn |-> "htmlspecialchars", str |-> x, from |-> <<>>] : x \in HtmlTexts}
               \cup {[fn |-> "htmlspecialchars_decode", str |-> x, from |-> <<>>] :
                        x \in Strings(EntityChars, MaxHtmlLen)}
    /\ result = NoResult
    /\ disk = NoMap

HtmlEscape ==
    /\ call.fn = "htmlspecialchars"
    /\ ~result.done
    /\ result' = Returned(htmlspecialchars(call.str))
    /\ UNCHANGED <<config, rate_limit_tracker, session_files, now, conns, server, last,
                   call, disk>>

HtmlDecodeEscaped ==
    /\ call.fn = "htmlspecialchars"
    /\ result.done
    /\ call' = [fn |-> "htmlspecialchars_decode", str |-> result.value,
                from |-> <<call.str>>]
    /\ result' = NoResult
    /\ UNCHANGED <<config, rate_limit_tracker, session_files, now, conns, server, last,
                   disk>>

HtmlDecode ==
    /\ call.fn = "htmlspecialchars_decode"
    /\ ~result.done
    /\ LET decoded == htmlspecialchars_decode(call.str)
       IN  result' = [done |-> TRUE, threw |-> decoded.threw, value |-> decoded.value]
    /\ UNCHANGED <<config, rate_limit_tracker, session_files, now, conns, server, last,
                   call, disk>>

NextHtml ==
    \/ HtmlEscape
    \/ HtmlDecodeEscaped
    \/ HtmlDecode

SpecHtml == InitHtml /\ [][NextHtml]_vars

\* str with each of the six characters replaced by its entity, every character
\* looked at once.
RECURSIVE EscapedOnce(_)
EscapedOnce(str) ==
    IF str = <<>> THEN <<>>
    ELSE (CASE Head(str) = "<" -> <<"&", "l", "t", ";">>
            [] Head(str) = ">" -> <<"&", "g", "t", ";">>
            [] Head(str) = "&" -> <<"&", "a", "m", "p", ";">>
            [] Head(str) = "\"" -> <<"&", "q", "u", "o", "t", ";">>
            [] Head(str) = "'" -> <<"&", "a", "p", "o", "s", ";">>
            [] Head(str) = "\\" -> <<"&", "b", "s", "o", "l", ";">>
            [] OTHER -> <<Head(str)>>) \o EscapedOnce(Tail(str))

\* C24: htmlspecialchars_decode(htmlspecialchars(s)) = s for the strings over
\* < > & " ' \ and ordinary characters, and htmlspecialchars is one pass from left
\* to right: the '&' that an entity begins with is not escaped again.
C24_HtmlRoundTrip ==
    /\ (call.fn = "htmlspecialchars" /\ result.done) => result.value = EscapedOnce(call.str)
    /\ (call.fn = "htmlspecialchars_decode" /\ call.from # <<>> /\ result.done) =>
          /\ ~result.threw
          /\ result.value = call.from[1]

\* The text &lt; has been escaped to &amp;lt; and decoded back to &lt;.
C24_Witness ==
    /\ call.fn = "htmlspecialchars_decode"
    /\ call.from = << <<"&", "l", "t", ";">> >>
    /\ call.str = <<"&", "a", "m", "p", ";", "l", "t", ";">>
    /\ result.done
    /\ ~result.threw
    /\ result.value = <<"&", "l", "t", ";">>

\* ---------------------------------------------------------------------------
\* parse_fields and parse_query_string (http_utils.hpp; http_server.hpp holds
\* the same two functions as members of session).
\* ---------------------------------------------------------------------------
MaxFieldLen == 6

\* body.find('=', last_amp_pos)
EqualsPos_start(body, last_amp_pos) == Find(body, <<"=">>, 0)

EqualsPos(body, last_amp_pos) == Find(body, <<"=">>, last_amp_pos)

\* The loop of parse_fields over the '&' of body.
RECURSIVE FieldsLoop(_, _, _, _)
FieldsLoop(body, last_amp_pos, amp_pos, ret) ==
    IF amp_pos = NPos THEN ret
    ELSE LET equals_pos == EqualsPos(body, last_amp_pos)
             key == Substr(body, last_amp_pos, SizeT(equals_pos - last_amp_pos))
             value == Substr(body, equals_pos + 1, SizeT(amp_pos - equals_pos - 1))
         IN  FieldsLoop(body, amp_pos + 1, Find(body, <<"&">>, amp_pos + 1),
                        IF equals_pos # NPos /\ equals_pos < amp_pos
                        THEN Put(ret, key, value) ELSE ret)

parse_fields(str) ==
    LET body == IF str # <<>> /\ str[Len(str)] # "&" THEN str \o <<"&">> ELSE str
    IN  FieldsLoop(body, 0, Find(body, <<"&">>, 0), NoMap)

parse_query_string(url) ==
    LET pos == Find(url, <<"?">>, 0)
    IN  IF pos = NPos THEN NoMap
        ELSE parse_fields(<<"&">> \o Substr(url, pos + 1, NPos))

\* The bodies and the addresses of the model.
FieldChars == {"a", "=", "&"}

UrlChars == {"a", "=", "&", "?"}

InitFields ==
    /\ ServerAtRest
    /\ call \in {[fn |-> "parse_fields", str |-> x] : x \in Strings(FieldChars, MaxFieldLen)}
               \cup {[fn |-> "parse_query_string", str |-> x] :
                        x \in Strings(UrlChars, MaxFieldLen)}
    /\ result = NoResult
    /\ disk = NoMap

ParseFields ==
    /\ call.fn = "parse_fields"
    /\ ~result.done
    /\ result' = Returned(parse_fields(call.str))
    /\ UNCHANGED <<config, rate_limit_tracker, session_files, now, conns, server, last,
                   call, disk>>

ParseQueryString ==
    /\ call.fn = "parse_query_string"
    /\ ~result.done
    /\ result' = Returned(parse_query_string(call.str))
    /\ UNCHANGED <<config, rate_limit_tracker, session_files, now, conns, server, last,
                   call, disk>>

NextFields ==
    \/ ParseFields
    \/ ParseQueryString

SpecFields == InitFields /\ [][NextFields]_vars

\* The segments of a body between its '&', in order.
RECURSIVE AmpSegments(_)
AmpSegments(body) ==
    LET amp == IndexOf(body, "&")
    IN  IF amp = 0 THEN <<body>>
        ELSE <<SubSeq(body, 1, amp - 1)>> \o AmpSegments(SubSeq(body, amp + 1, Len(body)))

\* The map of the first n segments: a segment with '=' gives the key before its first
\* '=' the value after it, in place of what an earlier segment gave the key; a
\* segment without '=' gives nothing.
RECURSIVE FieldsOf(_, _)
FieldsOf(segments, n) ==
    IF n = 0 THEN NoMap
    ELSE LET segment == segments[n]
             eq == IndexOf(segment, "=")
         IN  IF eq = 0 THEN FieldsOf(segments, n - 1)
             ELSE Put(FieldsOf(segments, n - 1), SubSeq(segment, 1, eq - 1),
                      SubSeq(segment, eq + 1, Len(segment)))

FieldMap(body) == FieldsOf(AmpSegments(body), Len(AmpSegments(body)))

\* C25: parse_fields(body) is the map of the '&'-separated segments of body, each
\* split at its first '=': a segment without '=' gives nothing, the last of the
\* segments of a key gives the key's value, and the empty body gives the empty map;
\* parse_query_string(url) is parse_fields of what follows the first '?' of url, and
\* the empty map when url has no '?'.
C25_FieldMap ==
    /\ (call.fn = "parse_fields" /\ result.done) =>
          /\ result.value = FieldMap(call.str)
          /\ call.str = <<>> => result.value = NoMap
    /\ (call.fn = "parse_query_string" /\ result.done) =>
          LET mark == IndexOf(call.str, "?")
              query == SubSeq(call.str, mark + 1, Len(call.str))
          IN  IF mark = 0 THEN result.value = NoMap
              ELSE /\ result.value = parse_fields(query)
                   /\ result.value = FieldMap(query)

\* The body a=&a=a has been parsed: the key a has the value of its last segment.
C25_Witness ==
    /\ call.fn = "parse_fields"
    /\ call.str = <<"a", "=", "&", "a", "=", "a">>
    /\ result.done
    /\ result.value = (<<"a">> :> <<"a">>)

\* ---------------------------------------------------------------------------
\* The loop of handle_request over response.cookies, one cookie at a time.
\* ---------------------------------------------------------------------------
\* The cookies that a callback may put in its response.
ResponseCookies ==
    [name : {"", "n"}, value : {"", "v"}, expires : {0, 1}, path : {"", "/"},
     domain : {"", "d"}, same_site : {"", "Strict", "Lax", "None", "strict"},
     attributes : {<<>>, <<"Partitioned">>}, http_only : BOOLEAN, secure : BOOLEAN,
     extra_attributes : {NoMap, [k \in {"Max-Age", "Priority"} |-> "1"]}]

InitSetCookie ==
    /\ ServerAtRest
    /\ call \in {[fn |-> "set_cookie", cookie |-> ck] : ck \in ResponseCookies}
    /\ result = NoResult
    /\ disk = NoMap

\* net_response.insert(field::set_cookie, cookie_str) for the cookie.
InsertSetCookie ==
    /\ call.fn = "set_cookie"
    /\ ~result.done
    /\ \E order \in Orders(DOMAIN call.cookie.extra_attributes) :
          result' = Returned(SetCookieHeader(call.cookie, order))
    /\ UNCHANGED <<config, rate_limit_tracker, session_files, now, conns, server, last,
                   call, disk>>

NextSetCookie == InsertSetCookie

SpecSetCookie == InitSetCookie /\ [][NextSetCookie]_vars

\* C27: a Set-Cookie header is name=value followed by Expires, HttpOnly (when set),
\* Secure (when set), Path (when not empty), Domain (when not empty), SameSite (when
\* it is Strict, Lax or None), the free-form attributes and the extra key=value
\* attributes, in this order, and no header is written for a cookie whose name or
\* whose value is empty.
C27_SetCookieHeader ==
    (call.fn = "set_cookie" /\ result.done) =>
        LET ck == call.cookie
            fixed == <<IF ck.expires # 0 THEN "Expires=date" ELSE "Expires=session">>
                     \o (IF ck.http_only THEN <<"HttpOnly">> ELSE <<>>)
                     \o (IF ck.secure THEN <<"Secure">> ELSE <<>>)
                     \o (IF ck.path # "" THEN <<"Path=" \o ck.path>> ELSE <<>>)
                     \o (IF ck.domain # "" THEN <<"Domain=" \o ck.domain>> ELSE <<>>)
                     \o (IF ck.same_site \in {"Strict", "Lax", "None"}
                         THEN <<"SameSite=" \o ck.same_site>> ELSE <<>>)
                     \o ck.attributes
            extra == SubSeq(result.value.attributes, Len(fixed) + 1,
                            Len(result.value.attributes))
        IN  /\ result.value.name = ck.name
            /\ result.value.value = ck.value
            /\ SubSeq(result.value.attributes, 1, Len(fixed)) = fixed
            /\ Len(extra) = Cardinality(DOMAIN ck.extra_attributes)
            /\ Range(extra) = {k \o "=" \o ck.extra_attributes[k] :
                                  k \in DOMAIN ck.extra_attributes}
            /\ ck.name # ""
            /\ ck.value # ""

(***************************************************************************)
(* The rate limiter, continued.                                            *)
(***************************************************************************)
\* The requests of the key that were admitted and arrived in [t, t + 60000).
AdmittedIn(key, t) == {d \in Passed(key) : t <= conns[d].t /\ conns[d].t < t + Window}

\* C28: under a limit L of 1 or more, for every key and every time t, at most 2 * L
\* requests of the key that arrive in [t, t + 60000) are admitted (the clock never
\* goes back).  The intervals that begin at the arrival of an admitted request are
\* looked at: an interval that begins elsewhere holds no more than the interval that
\* begins at the first admitted request in it.
C28_AtMostTwiceLimit ==
    \A key \in DOMAIN rate_limit_tracker :
        LimitOf(key) >= 1 =>
            \A c \in Passed(key) :
                Cardinality(AdmittedIn(key, conns[c].t)) <= 2 * LimitOf(key)

\* Under a limit of 2, three requests admitted in less than 60000 ms: the last of a
\* window and the first two of the next.
C28_Witness ==
    \E key \in DOMAIN rate_limit_tracker :
        /\ LimitOf(key) = 2
        /\ \E c \in Passed(key) :
              /\ Cardinality(AdmittedIn(key, conns[c].t)) = 3
              /\ \E d \in AdmittedIn(key, conns[c].t) : conns[d].ws # conns[c].ws

\* C29: the acceptance of a connection that is rejected, by the limit or by the
\* blacklist, leaves the rate-limit table as it was: no entry is made and no count and
\* no window start changes.
C29_RejectionLeavesTable ==
    [][(Len(conns') = Len(conns) + 1
        /\ conns'[Len(conns')].adm \in {"limited", "blacklist"})
       => rate_limit_tracker' = rate_limit_tracker]_vars

\* A connection rejected by the limit and one rejected by the blacklist, the latter's
\* address without entry in the table.
C29_Witness ==
    \E c, d \in DOMAIN conns :
        /\ conns[c].adm = "limited"
        /\ conns[d].adm = "blacklist"
        /\ \A key \in DOMAIN rate_limit_tracker : key[1] # conns[d].ip
        /\ rate_limit_tracker[TrackerKey(conns[c].ip, conns[c].ep)].last_request_time
              = conns[c].ws

(***************************************************************************)
(* Sessions: the callback's own session cookie.                            *)
(***************************************************************************)
\* C30: when the request has no session cookie, sessions are enabled and the response
\* of the callback holds a cookie with the name of the session cookie, the pipeline
\* adds no session cookie: the cookies of the response after the session handling are
\* the cookies that the callback returned.
C30_OwnSessionCookieKept ==
    (last.returned /\ enable_session /\ ~last.found
        /\ HasCookie(last.cb_cookies, session_cookie_name)) =>
        last.set_cookies = last.cb_cookies

\* The response to a request without session cookie has been sent with the session
\* cookie that the callback set, and with no other.
C30_Witness ==
    /\ last.sent
    /\ last.returned
    /\ enable_session
    /\ ~last.found
    /\ last.cb_cookies = <<OwnSessionCookie>>
    /\ last.set_cookies = <<OwnSessionCookie>>

(***************************************************************************)
(* Sessions: support disabled, valid sessions, identifiers.                *)
(***************************************************************************)
\* C31: with session support disabled, the callback gets an empty session map and an
\* empty session identifier, also for a request with a session cookie; the response
\* has the cookies that the callback returned and no minted one; and no connection
\* looks at, reads or writes the session store, whatever the callback puts in
\* response.session.
C31_DisabledSessions ==
    ~enable_session =>
        /\ last.called => (last.req_session = NoMap /\ last.req_session_id = <<>>)
        /\ last.returned => (last.minted = <<>> /\ last.set_cookies = last.cb_cookies
                                /\ ~last.merges /\ ~last.written)
        /\ \A c \in DOMAIN conns : conns[c].store = {}
        /\ session_files \in InitialFiles

\* With session support disabled, a request with a session cookie has been answered
\* after its callback wrote a session update, and the session directory is as it was.
C31_Witness ==
    /\ ~enable_session
    /\ last.sent
    /\ last.called
    /\ HasCookie(last.req_cookies, session_cookie_name)
    /\ last.update # NoMap
    /\ InPhases(last.c, "WRITTEN")
    /\ session_files \in InitialFiles

\* An identifier without its '/'.
NoSlashes(id) == SelectSeq(id, LAMBDA ch : ch # "/")

\* C32: when the callback is invoked for a request whose session cookie, with every
\* '/' removed, names a session file that exists, the session map of the request is
\* the map that the file holds and the session identifier of the request is the cookie
\* value without its '/'; the identifier under which the connection looks for, reads
\* and writes the file is that same identifier, and no session file has a '/' in its
\* identifier.
C32_ValidSession ==
    [][\A c \in DOMAIN conns :
          (/\ c \in DOMAIN conns'
           /\ conns'[c].cb = conns[c].cb + 1
           /\ last'.client_id # <<>>
           /\ NoSlashes(last'.client_id) \in DOMAIN session_files)
          => /\ last'.req_session =
                   read_from_session_file(session_files, NoSlashes(last'.client_id))
             /\ last'.req_session_id = NoSlashes(last'.client_id)
             /\ conns'[c].sid = NoSlashes(last'.client_id)
             /\ \A id \in DOMAIN session_files' : \A k \in DOMAIN id : id[k] # "/"]_vars

\* The request with the cookie value /x has been answered, its callback having been
\* given the record of x under the identifier x.
C32_Witness ==
    /\ last.sent
    /\ last.client_id = <<"/", "x">>
    /\ last.req_session = Map1(<<"a">>, <<"1">>)
    /\ last.req_session_id = <<"x">>
    /\ conns[last.c].sid = <<"x">>
    /\ <<"x">> \in DOMAIN session_files

(***************************************************************************)
(* The pipeline, continued.                                                *)
(***************************************************************************)
\* C33: a connection whose response has the stop flag is answered: once
\* handle_request is through with it and has shut the server down, its response has
\* been written (the connection has been in WRITTEN).
C33_StopResponseWritten ==
    \A c \in DOMAIN conns : Stopped(c) => InPhases(c, "WRITTEN")

\* The pipeline specification under fair scheduling: a completion handler that is
\* waiting for a connection is run in the end, as long as an io_context loop runs.
SpecLive ==
    /\ InitPipeline
    /\ [][NextPipeline]_vars
    /\ \A c \in 1..MaxPipelineConns :
          /\ WF_vars(c \in DOMAIN conns
                       /\ OnRead(c, PipelineRequests, PipelineOutcomes, StorageResults))
          /\ WF_vars(c \in DOMAIN conns /\ OnWrite(c))

\* The connection has come to its end: rejected at admission, or answered and torn
\* down, or dropped because the transport failed its read or its write.
Terminated(c) ==
    LET ph == conns[c].phases
    IN  \/ InPhases(c, "REJECTED")
        \/ InPhases(c, "WRITTEN") /\ InPhases(c, "CLOSED")
        \/ /\ ph[Len(ph)] = "CLOSED"
           /\ ph[Len(ph) - 1] \in {"ADMITTED", "RESPONSE_BUILT"}

\* C34: under fair scheduling every accepted connection terminates in the end: it is
\* rejected at admission, or its response is written and the connection torn down;
\* no admitted connection stays in a state between the two for ever.
C34_EveryConnectionTerminates ==
    \A c \in 1..MaxPipelineConns :
        (c \in DOMAIN conns) ~> (c \in DOMAIN conns /\ Terminated(c))

\* C35: every session record the pipeline creates is keyed by an identifier that
\* generate_random_string() returned for an earlier response: no request makes a
\* record appear under an identifier chosen by the client.
C35_RecordsUnderMintedIds ==
    [][\A id \in (DOMAIN session_files') \ (DOMAIN session_files) : id \in MintPool]_vars

\* C36: parse_multipart_form_file terminates for every request and every path
\* template: the loops that substitute %f, %h and %r each finish, also when the name
\* of the field holds %f, %h or %r.
C36_SubstitutionTerminates ==
    (call.fn = "parse_multipart_form_file" /\ ~result.done) => ~result.hangs

\* C37: the session updates of a response to a request that came without session
\* cookie are not persisted: handling such a request writes no record, and the store
\* is the same after it as before.
C37_NoCookieNoPersist ==
    [][(/\ last'.called
        /\ ~last'.erase
        /\ ~HasCookie(last'.req_cookies, session_cookie_name))
       => /\ session_files' = session_files
          /\ ~last'.written
          /\ "write" \notin conns'[last'.c].store]_vars

C37_Witness ==
    /\ enable_session /\ last.sent /\ InPhases(last.c, "WRITTEN")
    /\ ~last.erase /\ ~HasCookie(last.req_cookies, session_cookie_name)
    /\ last.update = Map1(<<"b">>, <<"2">>)
    /\ last.minted \in MintPool
    /\ ~last.written
    /\ session_files \in InitialFiles

\* C38: an admitted OPTIONS request is answered with 204: the callback is not
\* invoked for it, the session store is neither read nor written, and the response
\* carries no Set-Cookie header; the callback is invoked for other methods only.
C38_OptionsAnswered ==
    /\ \A c \in DOMAIN conns :
          conns[c].method = "OPTIONS" =>
              /\ conns[c].cb = 0
              /\ conns[c].store = {}
              /\ conns[c].threw = "none"
    /\ last.method = "OPTIONS" =>
          /\ ~last.called
          /\ last.sent /\ last.status = NoContent
          /\ last.set_cookies = <<>> /\ last.deletes = <<>> /\ last.minted = <<>>
          /\ ~last.merges /\ ~last.written
    /\ last.called => last.method # "OPTIONS"

C38_Witness ==
    /\ last.method = "OPTIONS" /\ last.sent /\ last.status = NoContent
    /\ enable_session
    /\ conns[last.c].method = "OPTIONS" /\ conns[last.c].cb = 0
    /\ InPhases(last.c, "WRITTEN")

\* C39: the client address by which a connection is admitted (whitelist, blacklist,
\* limiter key) is the address that the callback gets in request.ip_address, also when
\* trust_x_forwarded_for is set and the request has an X-Forwarded-For header.
C39_SameAddress ==
    last.called => last.ip_address = conns[last.c].ip

====
